---- MODULE Spec2Model ----
(***************************************************************************)
(* Model of the code-assistant MCP server's execution substrate:           *)
(*   - run          (helpers/process.js): spawn with timeout, one result   *)
(*   - isAllowed    (helpers/config.js) : the path sandbox                 *)
(*   - safeReadFile (helpers/fs.js)     : the bounded, sandboxed read      *)
(*   - the tool handlers that take a path from the client                  *)
(* Text is a sequence of code points, a Buffer a sequence of bytes, a path *)
(* string a sequence of one-character strings.                             *)
(***************************************************************************)
EXTENDS Integers, Sequences, FiniteSets, TLC

(***************************************************************************)
(* Bounds of the model.                                                    *)
(***************************************************************************)
\* chunks a spawned process writes to each of stdout and stderr
MaxChunks == 2
\* characters of a path argument
MaxPathLen == 3
\* bytes of the file inside the sandbox root
MaxFileLen == 2
\* invocations of repo_write_file in flight together
MaxWriters == 2
\* requests of one connection
MaxRequests == 2

(***************************************************************************)
(* Text and buffers.                                                       *)
(***************************************************************************)
\* U+FFFD, what the UTF-8 decoder emits for a malformed sequence
Replacement == 65533

\* bytes of the model: 'A', 'B', the lead byte 0xC3 and the continuation byte
\* 0xA9 (0xC3 0xA9 is U+00E9)
ByteA == 65
ByteB == 66
ByteLead == 195
ByteCont == 169
CodeE9 == 233

RECURSIVE Utf8Decode(_)
\* Buffer.prototype.toString("utf8") on the model's bytes
Utf8Decode(b) ==
  IF b = <<>> THEN <<>>
  ELSE IF b[1] = ByteLead
       THEN IF Len(b) >= 2 /\ b[2] = ByteCont
            THEN <<CodeE9>> \o Utf8Decode(SubSeq(b, 3, Len(b)))
            ELSE <<Replacement>> \o Utf8Decode(Tail(b))
       ELSE IF b[1] = ByteCont
            THEN <<Replacement>> \o Utf8Decode(Tail(b))
            ELSE <<b[1]>> \o Utf8Decode(Tail(b))

RECURSIVE Utf8Encode(_)
\* the UTF-8 bytes of a text made of 'A', 'B' and U+00E9
Utf8Encode(t) ==
  IF t = <<>> THEN <<>>
  ELSE IF t[1] = CodeE9
       THEN <<ByteLead, ByteCont>> \o Utf8Encode(Tail(t))
       ELSE <<t[1]>> \o Utf8Encode(Tail(t))

Min(a, b) == IF a < b THEN a ELSE b
Max(a, b) == IF a > b THEN a ELSE b

(***************************************************************************)
(* run(cmd, args, {cwd, timeoutMs})                                        *)
(***************************************************************************)
VARIABLES
  pc,           \* "idle" before run is called, "called" after
  rs,           \* the closure of one call of run: done, timer, out, err, the promise
  proc,         \* the child: "none", "failed" (asynchronous spawn failure), "nostdio"
                \* (asynchronous spawn failure that left the child without stdout
                \* and stderr), "running", "exited"
  procKind,     \* how the child answers SIGTERM: "default", "ignore", "eperm"
  exitCode,     \* <<>> (null) or <<c>>: the code the 'close' event carries
  producedOut,  \* chunks the child has written to stdout, in order
  producedErr,  \* chunks the child has written to stderr, in order
  nOut,         \* stdout chunks already handed to the 'data' handler
  nErr,         \* stderr chunks already handed to the 'data' handler
  errorEmitted, \* the 'error' event of an asynchronous spawn failure was emitted
  closeEmitted, \* the 'close' event was emitted
  atFire        \* <<>>, or <<r>> once the timer callback has run with done false: r is
                \* what had happened when it started (resolve calls, chunks received)

runVars == <<pc, rs, proc, procKind, exitCode, producedOut, producedErr,
             nOut, nErr, errorEmitted, closeEmitted, atFire>>

\* The sandbox: one call of a path-taking operation and the file system.
VARIABLES
  tpc,      \* "idle" before the call, then the await the call is suspended at
            \* ("stat", "readFile", "reading", "tail", "check", "command"), "returned" after;
            \* "write" for a call of repo_write_file, whose position is wcall[1].pc
  fs,       \* the regular files: absolute path -> bytes
  backups,  \* the backup files repo_write_file made: [of, at] -> bytes
  call,     \* the arguments of the call
  oplog,    \* what the call did, in order: [op, path, ok]
  outcome   \* what the call returned or threw: [kind, text, msg]

sandboxVars == <<tpc, fs, backups, call, oplog, outcome>>

\* Concurrent invocations of repo_write_file, each stepping from one await to
\* the next, and what the read of the call has met.
VARIABLES
  wcall,        \* invocation -> its position, arguments, locals and result
  lastWritten,  \* absolute path -> the content of the last writeFile on it, when
                \* that writeFile has completed, no other writeFile on the path was
                \* in flight together with it and none has started since
  rb            \* the readFile of the call: the bytes it returned, and what
                \* lastWritten had for the path then

writeVars == <<wcall, lastWritten, rb>>

\* The server process: its entry point, the registry, the requests of one
\* connection and the two output channels.
VARIABLES
  entry,      \* the entry point that runs
  boot,       \* the index of its next statement
  srv,        \* "Uninitialized", "Connected", "Serving" or "Closed"
  guards,     \* the uncaughtException and unhandledRejection handlers are installed
  registry,   \* the names of the registered tools
  resources,  \* the URIs of the registered resources
  reqs,       \* correlation identifier -> the request, its handler and its state
  order,      \* the identifiers of the requests in the order of their dispatch
  stdoutCh,   \* what was written to standard output, in order
  stderrCh    \* what was written to standard error

serverVars == <<entry, boot, srv, guards, registry, resources, reqs, order,
                stdoutCh, stderrCh>>

otherVars == <<writeVars, serverVars>>

vars == <<runVars, sandboxVars, otherVars>>

\* the code 'close' carries after an asynchronous spawn failure (a negative
\* errno): ENOENT (-24 for EMFILE, of a process that has run out of descriptors)
SpawnErrno == -2
\* the chunks a child may write: "A" and a lone lead byte
Chunks == {<<ByteA>>, <<ByteLead>>}

\* the err field of a result: captured stderr text, or one of run's messages
ErrText(t) == [kind |-> "stderr", text |-> t, ms |-> 0, msg |-> ""]
TimedOutMsg(ms) == [kind |-> "Timed out after", text |-> <<>>, ms |-> ms, msg |-> ""]
SpawnErrorMsg(m) == [kind |-> "Spawn error", text |-> <<>>, ms |-> 0, msg |-> m]

\* the closure when run is entered: let out = "", err = "", done = false
InitClosure ==
  [done |-> FALSE, timer |-> "none", timeoutMs |-> 60000,
   out |-> <<>>, err |-> <<>>,
   settled |-> FALSE, result |-> [code |-> 0, out |-> <<>>, err |-> ErrText(<<>>)],
   resolveCalls |-> 0, resolvedBy |-> "none", killCalls |-> 0,
   rejected |-> FALSE, thrown |-> ""]

\* resolve(v) of the promise: the first call settles it, later calls change nothing
Resolve(st, by, v) ==
  [st EXCEPT !.result = IF st.settled THEN @ ELSE v,
             !.resolvedBy = IF st.settled THEN @ ELSE by,
             !.settled = TRUE,
             !.resolveCalls = @ + 1]

\* an exception thrown inside the executor of new Promise(...): the promise is
\* rejected with it, unless it is settled already
Reject(st, m) ==
  [st EXCEPT !.rejected = IF st.settled THEN @ ELSE TRUE,
             !.thrown = IF st.settled THEN @ ELSE m,
             !.resolvedBy = IF st.settled THEN @ ELSE "rejected",
             !.settled = TRUE]

\* p.stdout.on("data", ...) on a child whose stdout is undefined
NoStdoutTypeError == "TypeError: Cannot read properties of undefined (reading 'on')"

\* clearTimeout(timer)
ClearTimeout(t) == IF t = "armed" THEN "cleared" ELSE t

\* code ?? 0
Coalesce(code, d) == IF code = <<>> THEN d ELSE code[1]

\* catch (e) { return resolve({code: -1, out: "", err: `Spawn failed: ...`}) }
OnSpawnThrow(st, m) ==
  Resolve(st, "spawnfail", [code |-> -1, out |-> <<>>, err |-> [kind |-> "Spawn failed", text |-> <<>>, ms |-> 0, msg |-> m]])

\* OnError with a slip: the 'error' path reuses the code of the synchronous failure
OnErrorSpawnFailedCode(st, m) ==
  IF ~st.done
  THEN Resolve([st EXCEPT !.timer = ClearTimeout(@), !.done = TRUE], "error",
               [code |-> -1, out |-> st.out, err |-> SpawnErrorMsg(m)])
  ELSE st

\* p.on("error", e => ...)
OnError(st, m) ==
  IF ~st.done
  THEN Resolve([st EXCEPT !.timer = ClearTimeout(@), !.done = TRUE], "error",
               [code |-> -3, out |-> st.out, err |-> SpawnErrorMsg(m)])
  ELSE st

\* OnStdoutData with a slip: the chunk replaces the buffer (out = d.toString())
OnStdoutDataOverwrite(st, d) == [st EXCEPT !.out = Utf8Decode(d)]

\* p.stdout.on("data", d => (out += d.toString()))
OnStdoutData(st, d) == [st EXCEPT !.out = @ \o Utf8Decode(d)]

\* p.stderr.on("data", d => (err += d.toString()))
OnStderrData(st, d) == [st EXCEPT !.err = @ \o Utf8Decode(d)]

\* OnClose with a slip: the timer is left armed and done is not set
OnCloseLeavesTimer(st, code) ==
  IF ~st.done
  THEN Resolve(st, "close",
               [code |-> Coalesce(code, 0), out |-> st.out, err |-> ErrText(st.err)])
  ELSE st

\* p.on("close", code => ...)
OnClose(st, code) ==
  IF ~st.done
  THEN Resolve([st EXCEPT !.timer = ClearTimeout(@), !.done = TRUE], "close",
               [code |-> Coalesce(code, 0), out |-> st.out, err |-> ErrText(st.err)])
  ELSE st

\* try { p.kill(); } catch {}: p.kill() sends SIGTERM. Node's subprocess.kill
\* "may emit an 'error' event if the signal cannot be delivered" (EPERM, a
\* child that runs as another user): it emits it before it returns, so the
\* 'error' handler of run runs inside the timer callback, while done is still
\* false. A throw of kill is swallowed by the catch.
Kill(st, killed) ==
  LET s1 == [st EXCEPT !.killCalls = @ + 1]
  IN IF killed = "emits_error" THEN OnError(s1, "kill EPERM") ELSE s1

\* OnTimeout with a slip: the timeout result drops the captured stdout (out: "")
OnTimeoutEmptyOut(st, killed) ==
  IF ~st.done
  THEN LET s1 == Kill(st, killed)
           s2 == [s1 EXCEPT !.done = TRUE]
       IN Resolve(s2, "timeout",
                  [code |-> -2, out |-> <<>>, err |-> TimedOutMsg(st.timeoutMs)])
  ELSE st

\* the setTimeout callback
OnTimeout(st, killed) ==
  IF ~st.done
  THEN LET s1 == Kill(st, killed)
           s2 == [s1 EXCEPT !.done = TRUE]
       IN Resolve(s2, "timeout",
                  [code |-> -2, out |-> s2.out, err |-> TimedOutMsg(st.timeoutMs)])
  ELSE st

\* what p.kill() meets: a running child dies, ignores SIGTERM or cannot be
\* signalled; a child that is gone is left alone (ESRCH, or no handle)
KillOutcome ==
  IF proc = "running"
  THEN CASE procKind = "default" -> "terminated"
         [] procKind = "ignore" -> "ignored"
         [] OTHER -> "emits_error"
  ELSE "noop"

RunInit ==
  /\ pc = "idle"
  /\ rs = InitClosure
  /\ proc = "none"
  /\ procKind = "default"
  /\ exitCode = <<>>
  /\ producedOut = <<>>
  /\ producedErr = <<>>
  /\ nOut = 0
  /\ nErr = 0
  /\ errorEmitted = FALSE
  /\ closeEmitted = FALSE
  /\ atFire = <<>>

\* run is called and spawn throws: the result is returned at once
CallSpawnThrows ==
  /\ pc = "idle"
  /\ pc' = "called"
  /\ rs' = OnSpawnThrow(InitClosure, "EINVAL")
  /\ UNCHANGED <<proc, procKind, exitCode, producedOut, producedErr,
                 nOut, nErr, errorEmitted, closeEmitted, atFire>>
  /\ UNCHANGED <<sandboxVars, otherVars>>

\* run is called and spawn returns a child: the timer is armed and the
\* handlers are registered. The child runs, or its spawn failed asynchronously
\* (ENOENT, EACCES: reported by an 'error' event). When the spawn failed
\* because no descriptor was left (EMFILE, ENFILE), the child that spawn
\* returns has no stdout and no stderr: the timer is armed and the 'error'
\* handler registered, then p.stdout.on throws inside the executor, the
\* promise is rejected and the 'data' and 'close' handlers are never
\* registered.
CallSpawnReturns ==
  /\ pc = "idle"
  /\ pc' = "called"
  /\ \E ms \in {10000, 60000} :
       LET armed == [InitClosure EXCEPT !.timeoutMs = ms, !.timer = "armed"]
       IN \/ /\ proc' = "running"
             /\ \E k \in {"default", "ignore", "eperm"} : procKind' = k
             /\ rs' = armed
          \/ /\ proc' = "failed"
             /\ procKind' = "default"
             /\ rs' = armed
          \/ /\ proc' = "nostdio"
             /\ procKind' = "default"
             /\ rs' = Reject(armed, NoStdoutTypeError)
  /\ UNCHANGED <<exitCode, producedOut, producedErr, nOut, nErr,
                 errorEmitted, closeEmitted, atFire>>
  /\ UNCHANGED <<sandboxVars, otherVars>>

\* the timer fires. The 'error' event of a failed spawn is emitted on the next
\* tick, before any timer runs.
TimerFire ==
  /\ pc = "called"
  /\ rs.timer = "armed"
  /\ ~(proc \in {"failed", "nostdio"} /\ ~errorEmitted)
  /\ rs' = OnTimeout([rs EXCEPT !.timer = "fired"], KillOutcome)
  /\ atFire' = IF ~rs.done
               THEN <<[resolveCalls |-> rs.resolveCalls, nOut |-> nOut, nErr |-> nErr]>>
               ELSE atFire
  /\ proc' = IF ~rs.done /\ KillOutcome = "terminated" THEN "exited" ELSE proc
  /\ UNCHANGED <<pc, procKind, exitCode, producedOut, producedErr, nOut, nErr,
                 errorEmitted, closeEmitted>>
  /\ UNCHANGED <<sandboxVars, otherVars>>

\* the child writes a chunk to stdout
ProcWriteOut ==
  /\ proc = "running"
  /\ Len(producedOut) < MaxChunks
  /\ \E c \in Chunks : producedOut' = Append(producedOut, c)
  /\ UNCHANGED <<pc, rs, proc, procKind, exitCode, producedErr, nOut, nErr,
                 errorEmitted, closeEmitted, atFire>>
  /\ UNCHANGED <<sandboxVars, otherVars>>

\* the child writes a chunk to stderr
ProcWriteErr ==
  /\ proc = "running"
  /\ Len(producedErr) < MaxChunks
  /\ \E c \in Chunks : producedErr' = Append(producedErr, c)
  /\ UNCHANGED <<pc, rs, proc, procKind, exitCode, producedOut, nOut, nErr,
                 errorEmitted, closeEmitted, atFire>>
  /\ UNCHANGED <<sandboxVars, otherVars>>

\* the child exits by itself with a code, or is ended by a signal from
\* elsewhere ('close' then carries no code)
ProcExit ==
  /\ proc = "running"
  /\ proc' = "exited"
  /\ \E c \in {<<>>} \cup {<<x>> : x \in {0, 1, 2}} : exitCode' = c
  /\ UNCHANGED <<pc, rs, procKind, producedOut, producedErr, nOut, nErr,
                 errorEmitted, closeEmitted, atFire>>
  /\ UNCHANGED <<sandboxVars, otherVars>>

\* a 'data' event of stdout: chunks arrive in the order written
DeliverOut ==
  /\ nOut < Len(producedOut)
  /\ rs' = OnStdoutData(rs, producedOut[nOut + 1])
  /\ nOut' = nOut + 1
  /\ UNCHANGED <<pc, proc, procKind, exitCode, producedOut, producedErr, nErr,
                 errorEmitted, closeEmitted, atFire>>
  /\ UNCHANGED <<sandboxVars, otherVars>>

\* a 'data' event of stderr
DeliverErr ==
  /\ nErr < Len(producedErr)
  /\ rs' = OnStderrData(rs, producedErr[nErr + 1])
  /\ nErr' = nErr + 1
  /\ UNCHANGED <<pc, proc, procKind, exitCode, producedOut, producedErr, nOut,
                 errorEmitted, closeEmitted, atFire>>
  /\ UNCHANGED <<sandboxVars, otherVars>>

\* the 'error' event of an asynchronous spawn failure
EmitError ==
  /\ proc \in {"failed", "nostdio"}
  /\ ~errorEmitted
  /\ errorEmitted' = TRUE
  /\ exitCode' = IF proc = "failed" THEN <<SpawnErrno>> ELSE <<-24>>
  /\ rs' = OnError(rs, IF proc = "failed" THEN "spawn ENOENT" ELSE "spawn EMFILE")
  /\ UNCHANGED <<pc, proc, procKind, producedOut, producedErr, nOut, nErr,
                 closeEmitted, atFire>>
  /\ UNCHANGED <<sandboxVars, otherVars>>

\* the 'close' event: after the child has ended (or failed to spawn, after its
\* 'error' event) and both streams have delivered everything. The 'close' of
\* a child without stdout finds no handler of run: none was registered.
EmitClose ==
  /\ \/ proc = "exited"
     \/ proc \in {"failed", "nostdio"} /\ errorEmitted
  /\ nOut = Len(producedOut)
  /\ nErr = Len(producedErr)
  /\ ~closeEmitted
  /\ closeEmitted' = TRUE
  /\ rs' = IF proc = "nostdio" THEN rs ELSE OnClose(rs, exitCode)
  /\ UNCHANGED <<pc, proc, procKind, exitCode, producedOut, producedErr, nOut, nErr,
                 errorEmitted, atFire>>
  /\ UNCHANGED <<sandboxVars, otherVars>>

(***************************************************************************)
(* Paths: path.resolve and the sandbox root.                               *)
(***************************************************************************)
\* characters of the model's path strings
Chars == {"/", ".", "r", "e"}

\* every path string a client may pass
PathStrings == UNION {[1..n -> Chars] : n \in 0..MaxPathLen}

\* REPO_ROOT = path.resolve(rootFromArg || rootFromEnv || process.cwd()): "/r"
REPO_ROOT == <<"/", "r">>

\* process.cwd() of the server, which path.resolve(p) resolves a relative p against: "/e"
Cwd == <<"/", "e">>

\* MAX_BYTES = 200 * 1024
MAX_BYTES == 204800

RECURSIVE Split(_, _)
\* the segments of s between "/", the first one continuing cur
Split(s, cur) ==
  IF s = <<>> THEN <<cur>>
  ELSE IF Head(s) = "/"
       THEN <<cur>> \o Split(Tail(s), <<>>)
       ELSE Split(Tail(s), Append(cur, Head(s)))

RECURSIVE NormalizeSegs(_, _)
\* path normalisation: empty and "." segments dropped, ".." drops the segment
\* before it (and nothing at the top)
NormalizeSegs(segs, stack) ==
  IF segs = <<>> THEN stack
  ELSE IF Head(segs) = <<>> \/ Head(segs) = <<".">>
       THEN NormalizeSegs(Tail(segs), stack)
       ELSE IF Head(segs) = <<".", ".">>
            THEN NormalizeSegs(Tail(segs),
                               IF stack = <<>> THEN <<>>
                               ELSE SubSeq(stack, 1, Len(stack) - 1))
            ELSE NormalizeSegs(Tail(segs), Append(stack, Head(segs)))

RECURSIVE Join(_)
\* "/" before every segment
Join(segs) ==
  IF segs = <<>> THEN <<>>
  ELSE <<"/">> \o Head(segs) \o Join(Tail(segs))

IsAbsolute(p) == p # <<>> /\ Head(p) = "/"

\* path.resolve(base, p) for an absolute base: p itself when absolute, else
\* base/p, normalised, without a trailing "/"
PathResolve(base, p) ==
  LET full == IF IsAbsolute(p) THEN p ELSE base \o <<"/">> \o p
      segs == NormalizeSegs(Split(full, <<>>), <<>>)
  IN IF segs = <<>> THEN <<"/">> ELSE Join(segs)

\* path.relative(from, to): both are resolved against process.cwd(); ".." for
\* every segment of from beyond the k leading segments they share, then the
\* rest of to
PathRelative(from, to) ==
  LET a == NormalizeSegs(Split(PathResolve(Cwd, from), <<>>), <<>>)
      b == NormalizeSegs(Split(PathResolve(Cwd, to), <<>>), <<>>)
      k == Cardinality({n \in 1 .. Min(Len(a), Len(b)) : SubSeq(a, 1, n) = SubSeq(b, 1, n)})
      segs == [i \in 1 .. (Len(a) - k) |-> <<".", ".">>] \o SubSeq(b, k + 1, Len(b))
  IN IF segs = <<>> THEN <<>> ELSE Tail(Join(segs))

\* String.prototype.startsWith
StartsWith(s, prefix) ==
  Len(s) >= Len(prefix) /\ SubSeq(s, 1, Len(prefix)) = prefix

\* isAllowed(p): abs.startsWith(path.resolve(REPO_ROOT))
isAllowed(p) ==
  StartsWith(PathResolve(Cwd, p), PathResolve(Cwd, REPO_ROOT))

(***************************************************************************)
(* The file system and safeReadFile.                                       *)
(***************************************************************************)
\* the directories of the model: "/", the root "/r" and the cwd "/e"
Dirs == {<<"/">>, REPO_ROOT, Cwd}

\* the file inside the root, "/r/e", and the one beside it, "/re"
InsideFile == <<"/", "r", "/", "e">>
SiblingFile == <<"/", "r", "e">>
SiblingBytes == <<ByteB>>

\* a file content of n bytes: 'A', 0xC3, 0xA9, 'A', ...
ContentOf(n) ==
  [i \in 1..n |-> CASE i % 3 = 1 -> ByteA
                    [] i % 3 = 2 -> ByteLead
                    [] OTHER -> ByteCont]

\* run's codes as a tool handler sees them: the exit codes 0, 1, 2 and 128
\* (a fatal error of git), spawn failure (-1), timeout (-2), spawn error (-3)
RunCodes == {0, 1, 2, 128, -1, -2, -3}

AccessDenied == "Access denied: path outside repo"

Op(name, path, ok) == [op |-> name, path |-> path, ok |-> ok]
Ok(text, msg) == [kind |-> "ok", text |-> text, msg |-> msg]
Throw(msg) == [kind |-> "throw", text |-> <<>>, msg |-> msg]
NoOutcome == [kind |-> "none", text |-> <<>>, msg |-> ""]

\* Buffer.prototype.slice(start, end): a negative index counts from the end,
\* both are clamped to the buffer, an empty range is empty
BufSlice(buf, start, end) ==
  LET len == Len(buf)
      s == IF start < 0 THEN Max(len + start, 0) ELSE Min(start, len)
      e == IF end < 0 THEN Max(len + end, 0) ELSE Min(end, len)
  IN IF e <= s THEN <<>> ELSE SubSeq(buf, s + 1, e)

\* access(abs) and stat(abs) resolve for a regular file and for a directory
Exists(f, abs) == abs \in DOMAIN f \/ abs \in Dirs

\* the files f with the file q created or replaced
Put(f, q, bytes) == [x \in DOMAIN f \cup {q} |-> IF x = q THEN bytes ELSE f[x]]

\* a write of the bytes new at offset off of a file that holds old: what lies
\* beyond the written bytes stays, a gap before them reads as zero bytes
WriteAt(old, off, new) ==
  [k \in 1 .. Max(Len(old), off + Len(new)) |->
     IF k > off /\ k <= off + Len(new) THEN new[k - off]
     ELSE IF k <= Len(old) THEN old[k] ELSE 0]

\* safeReadFile(relPath, start, end) up to await stat(abs): the path is
\* resolved and checked. ops lists what was done, outcome is NoOutcome while
\* the function is suspended.
ReadEnter(relPath) ==
  LET abs == PathResolve(REPO_ROOT, relPath)
  IN [ops |-> <<Op("isAllowed", abs, isAllowed(abs))>>,
      outcome |-> IF isAllowed(abs) THEN NoOutcome ELSE Throw(AccessDenied)]

\* stat(abs) acts on the files f: it resolves with the stats of a regular
\* file ("file") or of a directory ("dir"), or rejects ("enoent")
StatOf(f, abs) ==
  IF abs \in Dirs THEN "dir" ELSE IF abs \in DOMAIN f THEN "file" ELSE "enoent"

\* safeReadFile resumes after await stat(abs) has settled with st: a
\* rejection leaves safeReadFile, and so does a path that is not a regular file
ReadAfterStat(st, relPath, r) ==
  LET abs == PathResolve(REPO_ROOT, relPath)
  IN [ops |-> Append(r.ops, Op("stat", abs, st # "enoent")),
      outcome |-> IF st = "enoent" THEN Throw("ENOENT")
                  ELSE IF st = "dir" THEN Throw("Not a file")
                  ELSE NoOutcome]

\* readFile(abs) has opened the file, has taken its size with fstat and has
\* read the bytes got so far; its next read finds the file holding cur. With
\* a size it asks once for size bytes from the start, and is done with what
\* it gets. With the size 0 it reads from where its last read ended, as much
\* as is there, until a read gives nothing.
ReadBytes(cur, size, got) ==
  LET chunk == IF size = 0 THEN SubSeq(cur, Len(got) + 1, Len(cur))
               ELSE SubSeq(cur, 1, Min(size, Len(cur)))
  IN [buf |-> got \o chunk, done |-> size # 0 \/ chunk = <<>>]

\* safeReadFile resumes after await readFile(abs) has resolved with the
\* bytes buf
ReadAfterReadFile(buf, relPath, start, end, r) ==
  [ops |-> Append(r.ops, Op("readFile", PathResolve(REPO_ROOT, relPath), TRUE)),
   outcome |-> Ok(Utf8Decode(BufSlice(buf, start, Min(end, Len(buf)))), "")]

(***************************************************************************)
(* repo_write_file, one await at a time.                                   *)
(***************************************************************************)
\* the invocations of repo_write_file that may be in flight together
Writers == 1 .. MaxWriters

\* the content argument of invocation i: "B" or "éA", so that the
\* invocations in flight together write different contents
WriteContent(i) == IF i % 2 = 1 THEN <<ByteB>> ELSE <<CodeE9, ByteA>>

\* an invocation before it is dispatched: its position, its arguments, its
\* locals abs and fileExists, and what its file operations did. copy is
\* "none", "ok" or "failed"; stamp is the Date.now() of its backup name; size
\* is the length of the source when its copyFile opened it and copied the bytes
\* copied so far; opened says that its writeFile has opened (and emptied) the
\* file, wroteOver that the file existed then, overlap that another writeFile
\* on the same file was in flight together with its own; wrote says that its
\* writeFile has completed; ops lists its operations in order. res is "none"
\* while the awaited operation is under way, and "ok" or "fail" once it has
\* settled and the handler has not yet resumed: the handler resumes in a
\* later turn of the event loop.
NoWriter ==
  [pc |-> "idle", relPath |-> <<>>, content |-> <<>>, backup |-> FALSE,
   overwrite |-> FALSE, abs |-> <<>>, fileExists |-> FALSE, copy |-> "none",
   stamp |-> 0, size |-> 0, copied |-> 0, opened |-> FALSE, wroteOver |-> FALSE,
   overlap |-> FALSE, wrote |-> FALSE, ops |-> <<>>, result |-> NoOutcome,
   res |-> "none"]

\* the handler is entered: the path is resolved and checked, then access is awaited
WriteEnter(relPath, content, backup, overwrite) ==
  LET abs == PathResolve(REPO_ROOT, relPath)
      w == [NoWriter EXCEPT !.relPath = relPath, !.content = content,
                            !.backup = backup, !.overwrite = overwrite,
                            !.abs = abs,
                            !.ops = <<Op("isAllowed", abs, isAllowed(abs))>>]
  IN IF ~isAllowed(abs)
     THEN [w EXCEPT !.pc = "done", !.result = Throw(AccessDenied)]
     ELSE [w EXCEPT !.pc = "access"]

\* AfterAccess with a slip: the backup is never made
AfterAccessNoBackup(w, exists) ==
  LET w1 == [w EXCEPT !.ops = Append(@, Op("access", w.abs, exists))]
  IN IF exists /\ ~w.overwrite
     THEN [w1 EXCEPT !.fileExists = TRUE, !.pc = "done",
                     !.result = Ok(<<>>, "already exists")]
     ELSE [w1 EXCEPT !.fileExists = exists, !.pc = "write"]

\* access(abs) has resolved (exists) or rejected: fileExists is set, an existing
\* file without overwrite is reported, an existing file with backup is copied
\* next, anything else is written next
AfterAccess(w, exists) ==
  LET w1 == [w EXCEPT !.ops = Append(@, Op("access", w.abs, exists))]
  IN IF exists /\ ~w.overwrite
     THEN [w1 EXCEPT !.fileExists = TRUE, !.pc = "done",
                     !.result = Ok(<<>>, "already exists")]
     ELSE IF exists /\ w.backup
          THEN [w1 EXCEPT !.fileExists = TRUE, !.pc = "copy"]
          ELSE [w1 EXCEPT !.fileExists = exists, !.pc = "write"]

\* const backupPath = `${abs}.backup-${Date.now()}`: the name of the backup of
\* abs made in the millisecond t
BackupPath(abs, t) == [of |-> abs, at |-> t]

\* copyFile(abs, backupPath) has resolved (ok) or rejected: a rejection leaves
\* the handler
AfterCopy(w, ok) ==
  IF ok
  THEN [w EXCEPT !.copy = "ok", !.pc = "write"]
  ELSE [w EXCEPT !.copy = "failed", !.pc = "done", !.result = Throw("copyFile failed")]

\* copyFile(abs, backupPath) makes its next system call before it moves
\* bytes, on the files f and the backups b; calls of other invocations run
\* between them. At "copy" it opens the source and takes its size with fstat
\* (4096 for a directory), or fails and its promise is rejected; at "copyDst"
\* it opens the destination, creating it when it is not there; at "copyTrunc"
\* it empties the destination with ftruncate.
CopyBegin(w, f, b) ==
  LET name == BackupPath(w.abs, w.stamp)
      Res(w2, b2) == [w |-> w2, backups |-> b2]
      Opened(ok) == [w EXCEPT !.ops = Append(@, Op("copyFile", w.abs, ok))]
  IN CASE w.pc = "copy" ->
            {IF ok
             THEN Res([Opened(TRUE) EXCEPT !.pc = "copyDst",
                                          !.size = IF w.abs \in Dirs THEN 4096
                                                   ELSE Len(f[w.abs])], b)
             ELSE Res([Opened(FALSE) EXCEPT !.res = "fail"], b) :
               ok \in {io /\ Exists(f, w.abs) : io \in BOOLEAN}}
       [] w.pc = "copyDst" ->
            {Res([w EXCEPT !.pc = "copyTrunc"],
                 IF name \in DOMAIN b THEN b ELSE Put(b, name, <<>>))}
       [] w.pc = "copyTrunc" ->
            {Res([w EXCEPT !.pc = "copying"],
                 IF name \in DOMAIN b THEN Put(b, name, <<>>) ELSE b)}

\* the copy moves the bytes the source holds now, up to the size it had when
\* the copy took it, and is complete once it has moved that many. While the
\* source is shorter than that (another invocation has emptied it) and no
\* byte is left to move, the copy has no step. For a directory the move fails:
\* the destination is unlinked and the promise is rejected.
CopyProgress(w, f, b) ==
  LET name == BackupPath(w.abs, w.stamp)
      Res(w2, b2) == [w |-> w2, backups |-> b2]
      Moved(src, upTo) ==
        IF w.copied = w.size \/ upTo > w.copied
        THEN {Res([w EXCEPT !.copied = upTo, !.res = IF upTo = w.size THEN "ok" ELSE "none"],
                  IF name \in DOMAIN b
                  THEN Put(b, name, WriteAt(b[name], w.copied, SubSeq(src, w.copied + 1, upTo)))
                  ELSE b)}
        ELSE {}
  IN IF w.abs \in Dirs
     THEN {Res([w EXCEPT !.res = "fail"], [x \in DOMAIN b \ {name} |-> b[x]])}
     ELSE Moved(f[w.abs], Min(w.size, Len(f[w.abs])))

\* writeFile(abs, content, 'utf8') has resolved (ok) or rejected
AfterWrite(w, ok) ==
  IF ok
  THEN [w EXCEPT !.wrote = TRUE, !.pc = "done",
                 !.result = Ok(<<>>, IF w.fileExists /\ w.backup
                                     THEN "Successfully wrote (backup created)"
                                     ELSE "Successfully wrote")]
  ELSE [w EXCEPT !.pc = "done", !.result = Throw("writeFile failed")]

\* writeFile(abs, content, 'utf8') acts: it has opened the file with the flag
\* 'w', which creates it or empties it (ok), or it has failed and its promise
\* is rejected. existed says that the file was there, overlapped that another
\* writeFile has it open.
WriteBegin(w, ok, existed, overlapped) ==
  LET w1 == [w EXCEPT !.ops = Append(@, Op("writeFile", w.abs, ok))]
  IN IF ok
     THEN [w1 EXCEPT !.pc = "writing", !.opened = TRUE, !.wroteOver = existed,
                     !.overlap = overlapped]
     ELSE [w1 EXCEPT !.res = "fail"]

\* the handler resumes after the operation it awaited has settled, in the
\* millisecond t: after access it computes the backup name with Date.now()
\* when it goes on to copy
ResumeWrite(w, t) ==
  LET ok == w.res = "ok"
      w0 == [w EXCEPT !.res = "none"]
      Stamped(a) == IF a.pc = "copy" THEN [a EXCEPT !.stamp = t] ELSE a
  IN CASE w.pc = "access" -> Stamped(AfterAccess(w0, ok))
       [] w.pc \in {"copy", "copyDst", "copyTrunc", "copying"} -> AfterCopy(w0, ok)
       [] w.pc \in {"write", "writing"} -> AfterWrite(w0, ok)

\* the resolved path of an invocation: its local abs
AbsOf(w) == w.abs

\* writeFile can create or open abs: abs is no directory and lies in one
CanWrite(abs) ==
  LET segs == NormalizeSegs(Split(abs, <<>>), <<>>)
      dir == IF Len(segs) <= 1 THEN <<"/">> ELSE Join(SubSeq(segs, 1, Len(segs) - 1))
  IN abs \notin Dirs /\ dir \in Dirs

NoBackups == [q \in {} |-> <<>>]

WriteIdle ==
  /\ wcall = [i \in Writers |-> NoWriter]
  /\ lastWritten = [q \in {} |-> <<>>]
  /\ rb = [kind |-> "none", buf |-> <<>>, written |-> <<>>]

\* a repo_write_file request is dispatched: the requests arrive one after
\* the other
WriteCall(i) ==
  /\ wcall[i].pc = "idle"
  /\ \A j \in Writers : j < i => wcall[j].pc # "idle"
  /\ \E p \in {<<c>> : c \in Chars}, bk \in BOOLEAN, ow \in BOOLEAN :
       wcall' = [wcall EXCEPT ![i] = WriteEnter(p, WriteContent(i), bk, ow)]
  /\ UNCHANGED <<fs, backups, lastWritten, rb>>
  /\ UNCHANGED <<tpc, call, oplog, outcome, runVars, serverVars>>

\* access(abs) acts on the files as they are now
WriteAccess(i) ==
  /\ wcall[i].pc = "access"
  /\ wcall[i].res = "none"
  /\ wcall' = [wcall EXCEPT ![i].res = IF Exists(fs, AbsOf(wcall[i])) THEN "ok" ELSE "fail"]
  /\ UNCHANGED <<fs, backups, lastWritten, rb>>
  /\ UNCHANGED <<tpc, call, oplog, outcome, runVars, serverVars>>

\* Date.now() when the backup is named: the millisecond of the latest name, or
\* a later one
Stamps ==
  LET S == {wcall[i].stamp : i \in Writers} \cup {reqs[i].h.w.stamp : i \in DOMAIN reqs}
      last == CHOOSE m \in S : \A x \in S : x <= m
  IN IF last = 0 THEN {1} ELSE {last, last + 1}

\* copyFile(abs, backupPath) makes one system call before it moves bytes:
\* the source is opened and its size taken, or the copy fails; the backup
\* file is opened, and created unless an invocation of the same millisecond
\* has made it already; the backup file is emptied
WriteCopyFile(i) ==
  /\ wcall[i].pc \in {"copy", "copyDst", "copyTrunc"}
  /\ wcall[i].res = "none"
  /\ \E x \in CopyBegin(wcall[i], fs, backups) :
       /\ wcall' = [wcall EXCEPT ![i] = x.w]
       /\ backups' = x.backups
  /\ UNCHANGED <<fs, lastWritten, rb>>
  /\ UNCHANGED <<tpc, call, oplog, outcome, runVars, serverVars>>

\* the copy moves bytes of the source into the backup file, or fails on a
\* directory
WriteCopyData(i) ==
  /\ wcall[i].pc = "copying"
  /\ wcall[i].res = "none"
  /\ \E x \in CopyProgress(wcall[i], fs, backups) :
       /\ wcall' = [wcall EXCEPT ![i] = x.w]
       /\ backups' = x.backups
  /\ UNCHANGED <<fs, lastWritten, rb>>
  /\ UNCHANGED <<tpc, call, oplog, outcome, runVars, serverVars>>

\* writeFile(abs, content, 'utf8') acts: the file is created, or emptied when
\* it exists, or the write fails (abs is a directory)
WriteWriteFile(i) ==
  /\ wcall[i].pc = "write"
  /\ wcall[i].res = "none"
  /\ LET abs == AbsOf(wcall[i])
         ok == CanWrite(abs)
         others == {j \in Writers \ {i} : wcall[j].pc = "writing" /\ wcall[j].res = "none"
                                            /\ AbsOf(wcall[j]) = abs}
     IN /\ wcall' = [j \in Writers |->
                       IF j = i THEN WriteBegin(wcall[i], ok, abs \in DOMAIN fs, others # {})
                       ELSE IF ok /\ j \in others THEN [wcall[j] EXCEPT !.overlap = TRUE]
                       ELSE wcall[j]]
        /\ fs' = IF ok THEN Put(fs, abs, <<>>) ELSE fs
        /\ lastWritten' = IF ok THEN [q \in DOMAIN lastWritten \ {abs} |-> lastWritten[q]]
                          ELSE lastWritten
  /\ UNCHANGED <<backups, rb>>
  /\ UNCHANGED <<tpc, call, oplog, outcome, runVars, serverVars>>

\* the UTF-8 bytes of content are written from the start of the file: the
\* promise of writeFile is resolved
WriteWriteData(i) ==
  /\ wcall[i].pc = "writing"
  /\ wcall[i].res = "none"
  /\ LET w == wcall[i]
         abs == AbsOf(w)
     IN /\ wcall' = [wcall EXCEPT ![i].res = "ok"]
        /\ fs' = Put(fs, abs, WriteAt(fs[abs], 0, Utf8Encode(w.content)))
        /\ lastWritten' = IF w.overlap THEN lastWritten
                          ELSE Put(lastWritten, abs, w.content)
  /\ UNCHANGED <<backups, rb>>
  /\ UNCHANGED <<tpc, call, oplog, outcome, runVars, serverVars>>

\* the handler of invocation i resumes, in a turn of the event loop after the
\* one in which the operation it awaited has settled: it starts its next
\* operation, returns or throws
WriteResume(i) ==
  /\ wcall[i].res # "none"
  /\ \E t \in Stamps : wcall' = [wcall EXCEPT ![i] = ResumeWrite(@, t)]
  /\ UNCHANGED <<fs, backups, lastWritten, rb>>
  /\ UNCHANGED <<tpc, call, oplog, outcome, runVars, serverVars>>

(***************************************************************************)
(* One call of a path-taking operation, one await at a time.               *)
(***************************************************************************)
\* runtime_logs' handler after run has resolved with code
runtimeLogsAfterRun(code) == IF code # 0 THEN Ok(<<>>, "Failed") ELSE Ok(<<>>, "out")

\* after the check has resolved: the handler returns, or spawns its command
\* with "-- <path>" when a path is given
gitAfterCheck(tool, path, inRepo, ops) ==
  IF ~inRepo
  THEN [ops |-> ops, outcome |-> Ok(<<>>, "Not a git repository.")]
  ELSE [ops |-> Append(ops, Op(IF tool = "git_diff_unstaged" THEN "spawn git diff"
                                ELSE "spawn git log",
                               IF path # <<>> THEN PathResolve(REPO_ROOT, path) ELSE <<>>,
                               TRUE)),
        outcome |-> NoOutcome]

\* git_diff_unstaged after git diff has resolved: code > 1 throws
gitDiffUnstagedAfterRun(code) ==
  IF code > 1 THEN Throw("git diff failed") ELSE Ok(<<>>, "out")

\* git_log after git log has resolved: code # 0 is reported in the content
gitLogAfterRun(code) ==
  IF code # 0 THEN Ok(<<>>, "git log failed") ELSE Ok(<<>>, "out")

\* the call: its arguments, and for a read the operation under way: st is
\* what stat has settled with ("none" before), size what readFile has found
\* with fstat, buf the bytes it has read so far, eof that it has read them
\* all, and written what lastWritten had for the path when the file was
\* opened and still has
NoCall ==
  [tool |-> "none", path |-> <<>>, start |-> 0, end |-> 0,
   content |-> <<>>, backup |-> FALSE, overwrite |-> FALSE, code |-> 0, inRepo |-> FALSE,
   st |-> "none", size |-> 0, buf |-> <<>>, eof |-> FALSE, written |-> <<>>]

SandboxIdle ==
  /\ tpc = "idle"
  /\ backups = NoBackups
  /\ call = NoCall
  /\ oplog = <<>>
  /\ outcome = NoOutcome

\* the sandbox before the call: the file inside the root has any content up to
\* MaxFileLen bytes
SandboxInit ==
  /\ SandboxIdle
  /\ \E n \in 0..MaxFileLen :
       fs = [q \in {InsideFile, SiblingFile} |->
               IF q = InsideFile THEN ContentOf(n) ELSE SiblingBytes]

\* isAllowed(p) called by itself
CallIsAllowed ==
  /\ tpc = "idle"
  /\ tpc' = "returned"
  /\ \E p \in PathStrings :
       /\ call' = [NoCall EXCEPT !.tool = "isAllowed", !.path = p]
       /\ oplog' = <<Op("isAllowed", PathResolve(Cwd, p), isAllowed(p))>>
  /\ outcome' = Ok(<<>>, "")
  /\ UNCHANGED <<fs, backups>>
  /\ UNCHANGED <<runVars, otherVars>>

\* a tool whose handler is safeReadFile(rel, start, end) is called: it runs to
\* await stat(abs), or throws
ReadTool(name) ==
  /\ tpc = "idle"
  /\ \E p \in PathStrings :
       \E s \in (-MaxFileLen .. MaxFileLen) \cup {MAX_BYTES}, e \in (-MaxFileLen .. MaxFileLen) \cup {MAX_BYTES} :
       LET r == ReadEnter(p)
       IN /\ call' = [NoCall EXCEPT !.tool = name, !.path = p, !.start = s, !.end = e]
          /\ oplog' = r.ops
          /\ outcome' = r.outcome
          /\ tpc' = IF r.outcome.kind = "none" THEN "stat" ELSE "returned"
  /\ UNCHANGED <<fs, backups>>
  /\ UNCHANGED <<runVars, otherVars>>

\* safeReadFile called by a handler of the repository
CallSafeReadFile == ReadTool("safeReadFile")

\* repo_file
ToolRepoFile == ReadTool("repo_file")

\* docs.read
ToolDocsRead == ReadTool("docs.read")

\* stat(abs) of the call acts on the files as they are now
ReadStat ==
  /\ tpc = "stat"
  /\ call.st = "none"
  /\ call' = [call EXCEPT !.st = StatOf(fs, PathResolve(REPO_ROOT, call.path))]
  /\ UNCHANGED <<tpc, fs, backups, oplog, outcome>>
  /\ UNCHANGED <<runVars, otherVars>>

\* safeReadFile resumes after stat, in a later turn of the event loop: it
\* throws, or calls readFile(abs)
ReadAfterStatResumes ==
  /\ tpc = "stat"
  /\ call.st # "none"
  /\ LET r == ReadAfterStat(call.st, call.path, [ops |-> oplog, outcome |-> outcome])
     IN /\ oplog' = r.ops
        /\ outcome' = r.outcome
        /\ tpc' = IF r.outcome.kind = "none" THEN "readFile" ELSE "returned"
  /\ UNCHANGED <<fs, backups, call>>
  /\ UNCHANGED <<runVars, otherVars>>

\* readFile(abs) of the call opens the file and takes its size with fstat;
\* written is the content the last writeFile on abs has left, when one has
\* completed by itself and none has started since
ReadOpen ==
  /\ tpc = "readFile"
  /\ tpc' = "reading"
  /\ LET abs == PathResolve(REPO_ROOT, call.path)
         written == IF abs \in DOMAIN lastWritten THEN <<lastWritten[abs]>> ELSE <<>>
     IN call' = [call EXCEPT !.size = Len(fs[abs]), !.written = written]
  /\ UNCHANGED <<fs, backups, oplog, outcome>>
  /\ UNCHANGED <<runVars, otherVars>>

\* readFile(abs) of the call makes one read of the file as it is now; after
\* its last read its promise is resolved
ReadReadFile ==
  /\ tpc = "reading"
  /\ ~call.eof
  /\ LET abs == PathResolve(REPO_ROOT, call.path)
         written == IF abs \in DOMAIN lastWritten THEN <<lastWritten[abs]>> ELSE <<>>
         r == ReadBytes(fs[abs], call.size, call.buf)
     IN call' = [call EXCEPT !.buf = r.buf, !.eof = r.done,
                             !.written = IF written = @ THEN @ ELSE <<>>]
  /\ UNCHANGED <<tpc, fs, backups, oplog, outcome>>
  /\ UNCHANGED <<runVars, otherVars>>

\* safeReadFile resumes after readFile, in a later turn of the event loop,
\* and returns. rb keeps the bytes readFile gave and the content the last
\* writeFile on the file had left, when one had completed by itself before
\* the file was opened and none has started before it was read.
ReadReturns ==
  /\ tpc = "reading"
  /\ call.eof
  /\ LET r == ReadAfterReadFile(call.buf, call.path, call.start, call.end,
                                [ops |-> oplog, outcome |-> outcome])
     IN /\ oplog' = r.ops
        /\ outcome' = r.outcome
        /\ rb' = [kind |-> "read", buf |-> call.buf, written |-> call.written]
  /\ tpc' = "returned"
  /\ UNCHANGED <<fs, backups, call, wcall, lastWritten>>
  /\ UNCHANGED <<runVars, serverVars>>

\* repo_write_file is called with any path: the first invocation, which then
\* goes from await to await
ToolRepoWriteFile ==
  /\ tpc = "idle"
  /\ wcall[1].pc = "idle"
  /\ tpc' = "write"
  /\ \E p \in PathStrings, c \in {<<ByteB>>, <<CodeE9>>}, bk \in BOOLEAN, ow \in BOOLEAN :
       /\ call' = [NoCall EXCEPT !.tool = "repo_write_file", !.path = p,
                                 !.content = c, !.backup = bk, !.overwrite = ow]
       /\ wcall' = [wcall EXCEPT ![1] = WriteEnter(p, c, bk, ow)]
  /\ UNCHANGED <<fs, backups, oplog, outcome, lastWritten, rb>>
  /\ UNCHANGED <<runVars, serverVars>>

\* another request, in flight together with the call: repo_write_file
\* {path: "e", content: "éA", backup: false, overwrite: true}; and beside a
\* read of that file that awaits its file operations a third one,
\* repo_write_file {path: "e", content: "B", backup: false, overwrite: true}
ConcurrentWrite ==
  /\ \E i \in Writers :
       /\ wcall[i].pc = "idle"
       /\ i = 2 \/ (i = 1 /\ tpc \in {"stat", "readFile", "reading"}
                       /\ PathResolve(REPO_ROOT, call.path) = InsideFile)
       /\ wcall' = [wcall EXCEPT ![i] = WriteEnter(<<"e">>, WriteContent(i), FALSE, TRUE)]
  /\ UNCHANGED <<fs, backups, lastWritten, rb>>
  /\ UNCHANGED <<tpc, call, oplog, outcome, runVars, serverVars>>

\* runtime_logs is called: it runs to await run(cmd, args)
ToolRuntimeLogs ==
  /\ tpc = "idle"
  /\ tpc' = "tail"
  /\ \E p \in PathStrings :
       /\ call' = [NoCall EXCEPT !.tool = "runtime_logs", !.path = p]
       /\ oplog' = <<Op("spawn tail", PathResolve(REPO_ROOT, p), TRUE)>>
  /\ UNCHANGED <<fs, backups, outcome>>
  /\ UNCHANGED <<runVars, otherVars>>

\* a git handler that takes an optional path is called: it runs to the await
\* of its work-tree check
GitTool(name) ==
  /\ tpc = "idle"
  /\ tpc' = "check"
  /\ \E p \in PathStrings :
       call' = [NoCall EXCEPT !.tool = name, !.path = p]
  /\ oplog' = <<Op("spawn git rev-parse", <<>>, TRUE)>>
  /\ UNCHANGED <<fs, backups, outcome>>
  /\ UNCHANGED <<runVars, otherVars>>

\* git_diff_unstaged
ToolGitDiffUnstaged == GitTool("git_diff_unstaged")

\* git_log
ToolGitLog == GitTool("git_log")

\* the run that the call awaits resolves: tail, the work-tree check (its out
\* holds "true" or not), or the git command; or it rejects, and the handler,
\* which has no try around its await, throws what run threw
ToolRunResolves ==
  \/ /\ tpc = "tail"
     /\ tpc' = "returned"
     /\ \E c \in RunCodes :
          /\ call' = [call EXCEPT !.code = c]
          /\ outcome' = runtimeLogsAfterRun(c)
     /\ UNCHANGED <<fs, backups, oplog>>
     /\ UNCHANGED <<runVars, otherVars>>
  \/ /\ tpc = "check"
     /\ \E g \in BOOLEAN :
          LET r == gitAfterCheck(call.tool, call.path, g, oplog)
          IN /\ call' = [call EXCEPT !.inRepo = g]
             /\ oplog' = r.ops
             /\ outcome' = r.outcome
             /\ tpc' = IF r.outcome.kind = "none" THEN "command" ELSE "returned"
     /\ UNCHANGED <<fs, backups>>
     /\ UNCHANGED <<runVars, otherVars>>
  \/ /\ tpc = "command"
     /\ tpc' = "returned"
     /\ \E c \in RunCodes :
          /\ call' = [call EXCEPT !.code = c]
          /\ outcome' = IF call.tool = "git_diff_unstaged"
                        THEN gitDiffUnstagedAfterRun(c) ELSE gitLogAfterRun(c)
     /\ UNCHANGED <<fs, backups, oplog>>
     /\ UNCHANGED <<runVars, otherVars>>
  \/ /\ tpc \in {"tail", "check", "command"}
     /\ tpc' = "returned"
     /\ outcome' = Throw(NoStdoutTypeError)
     /\ UNCHANGED <<fs, backups, oplog, call>>
     /\ UNCHANGED <<runVars, otherVars>>

(***************************************************************************)
(* The server: entry points, registered tools and their input schemas.     *)
(***************************************************************************)
\* the statements of an entry point, in order. "guards" installs the
\* uncaughtException and unhandledRejection handlers, "connect" is
\* await server.connect(transport), "log" writes the startup message; the
\* others are the registration calls.
Script(e) ==
  IF e = "server.mjs"
  THEN <<"ping", "hello", "connect", "log">>
  ELSE <<"guards", "ping", "repo", "git", "hello", "docs", "issues", "runtime",
         "connect", "log">>

\* the tools a registration call registers
ToolsOf(step) ==
  CASE step = "ping" -> {"ping"}
    [] step = "repo" -> {"repo_file", "repo_search", "repo_write_file",
                         "repo_smart_context", "repo_analyze_project"}
    [] step = "git" -> {"git_list_changed_files", "git_diff_unstaged", "git_log",
                        "git_commit"}
    [] step = "docs" -> {"docs.read", "docs.search", "docs.list_common"}
    [] step = "issues" -> {"issues.list", "prs.list"}
    [] step = "runtime" -> {"runtime_processes", "runtime_logs", "runtime_port_check"}
    [] OTHER -> {}

\* the resources a registration call registers
ResourcesOf(step) == IF step = "hello" THEN {"hello://world"} ELSE {}

\* where the startup message goes: console.log in server.mjs,
\* process.stderr.write in the other entry point
StartupLogChannel(e) == IF e = "server.mjs" THEN "stdout" ELSE "stderr"

AllTools == UNION {ToolsOf(Script("main")[k]) : k \in DOMAIN Script("main")}

\* a field of an input schema: z.<type>() or z.<type>().optional()
Req(t) == [type |-> t, optional |-> FALSE]
Opt(t) == [type |-> t, optional |-> TRUE]

\* inputSchema of each tool: field -> type and optionality
ToolSchema(t) ==
  CASE t = "ping" -> ("msg" :> Opt("string"))
    [] t \in {"repo_file", "docs.read"} ->
         ("path" :> Req("string")) @@ ("start" :> Opt("number")) @@ ("end" :> Opt("number"))
    [] t \in {"repo_search", "docs.search"} ->
         ("query" :> Req("string")) @@ ("maxResults" :> Opt("number"))
    [] t = "repo_write_file" ->
         ("path" :> Req("string")) @@ ("content" :> Req("string"))
           @@ ("backup" :> Opt("boolean")) @@ ("overwrite" :> Opt("boolean"))
    [] t = "repo_smart_context" ->
         ("query" :> Req("string")) @@ ("maxFiles" :> Opt("number"))
           @@ ("includeContent" :> Opt("boolean")) @@ ("fileTypes" :> Opt("array"))
    [] t = "repo_analyze_project" ->
         ("depth" :> Opt("number")) @@ ("includeStats" :> Opt("boolean"))
    [] t = "git_list_changed_files" -> ("includeUntracked" :> Opt("boolean"))
    [] t = "git_diff_unstaged" ->
         ("maxBytes" :> Opt("number")) @@ ("path" :> Opt("string"))
    [] t = "git_log" ->
         ("limit" :> Opt("number")) @@ ("path" :> Opt("string")) @@ ("since" :> Opt("string"))
    [] t = "git_commit" ->
         ("message" :> Req("string")) @@ ("addAll" :> Opt("boolean"))
           @@ ("paths" :> Opt("array")) @@ ("allowEmpty" :> Opt("boolean"))
    [] t = "docs.list_common" -> ("limit" :> Opt("number"))
    [] t \in {"issues.list", "prs.list"} ->
         ("state" :> Opt("string")) @@ ("limit" :> Opt("number")) @@ ("search" :> Opt("string"))
    [] t = "runtime_processes" -> ("limit" :> Opt("number"))
    [] t = "runtime_logs" -> ("path" :> Req("string")) @@ ("lines" :> Opt("number"))
    [] t = "runtime_port_check" -> ("port" :> Req("number"))

\* the argument object of a request: field -> the type of the value given
\* ("string", "number", "boolean", "array"); a field that is not given is not
\* in the domain

\* the argument objects of the model: all fields given and well typed, one
\* field left out, or one field given with a value of another type
ArgShapes(t) ==
  LET full == [f \in DOMAIN ToolSchema(t) |-> ToolSchema(t)[f].type]
      F == DOMAIN full
  IN {full}
       \cup {[g \in F \ {f} |-> full[g]] : f \in F}
       \cup {[full EXCEPT ![f] = IF @ = "string" THEN "number" ELSE "string"] : f \in F}

\* the fields of args that fail the schema: a required field that is missing,
\* or a field given with a value of the wrong type
Offending(schema, args) ==
  {f \in DOMAIN schema :
     \/ (f \notin DOMAIN args /\ ~schema[f].optional)
     \/ (f \in DOMAIN args /\ args[f] # schema[f].type)}

(***************************************************************************)
(* The tool handlers, from one await to the next.                          *)
(***************************************************************************)
\* what an awaited run(cmd, args) resolves with, as a handler reads it: the
\* code, and what the handler looks for in out or err
RunResult(c, o) == [code |-> c, out |-> o, rejected |-> FALSE]

\* success, exit code 1 with "nothing to commit", exit code 2, spawn failure
\* (-1), timeout (-2), spawn error (-3), and the rejection: spawn returned a
\* child without stdout
ToolRunResults ==
  {RunResult(0, "true"), RunResult(1, "nothing to commit"), RunResult(2, ""),
   RunResult(-1, ""), RunResult(-2, ""), RunResult(-3, ""),
   [RunResult(0, "") EXCEPT !.rejected = TRUE]}

\* the values of the arguments a handler reads, each with the default the
\* handler's parameter list gives it: start = 0, end = MAX_BYTES, backup = true,
\* overwrite = false, maxFiles = 5, includeContent = true, includeStats = true,
\* addAll = false, paths = []
NoVals ==
  [addAll |-> FALSE, hasPaths |-> FALSE, path |-> <<"e">>, start |-> 0,
   end |-> MAX_BYTES, content |-> <<ByteB>>, backup |-> TRUE, overwrite |-> FALSE,
   maxFiles |-> 5, includeContent |-> TRUE, includeStats |-> TRUE]

\* the values a request with the argument object a may carry: those of S for
\* a field that is given, the default for one that is not; the path
\* arguments are the file inside the root, and "/"
ValsOf(t, a) ==
  LET Given(f, S) == IF f \in DOMAIN a THEN S ELSE {NoVals[f]}
  IN CASE Offending(ToolSchema(t), a) # {} -> {NoVals}
       [] t = "git_commit" ->
            {[NoVals EXCEPT !.addAll = x, !.hasPaths = p] :
               x \in Given("addAll", BOOLEAN),
               p \in IF "paths" \in DOMAIN a THEN BOOLEAN ELSE {FALSE}}
       [] t \in {"repo_file", "docs.read"} ->
            {[NoVals EXCEPT !.path = p, !.start = x, !.end = y] :
               p \in {<<"e">>, <<"/">>}, x \in Given("start", {0, 1}), y \in Given("end", {1, 2})}
       [] t = "repo_write_file" ->
            {[NoVals EXCEPT !.path = p, !.content = c, !.backup = bk, !.overwrite = ow] :
               p \in {<<"e">>, <<"/">>}, c \in {<<ByteB>>, <<CodeE9>>},
               bk \in Given("backup", BOOLEAN), ow \in Given("overwrite", BOOLEAN)}
       [] t = "repo_smart_context" ->
            {[NoVals EXCEPT !.maxFiles = n, !.includeContent = ic] :
               n \in Given("maxFiles", {0, 5}), ic \in Given("includeContent", BOOLEAN)}
       [] t = "repo_analyze_project" ->
            {[NoVals EXCEPT !.includeStats = x] : x \in Given("includeStats", BOOLEAN)}
       [] OTHER -> {NoVals}

\* addAll = false and paths = [] unless given
AddAll(q) == "addAll" \in DOMAIN q.args /\ q.vals.addAll
HasPaths(q) == "paths" \in DOMAIN q.args /\ q.vals.hasPaths

\* a handler that has not been called: kind is "none", then "run" (awaiting
\* run), "fs" (awaiting file operations), "return" or "throw"; at names the
\* await, cmd the command awaited, log lists the commands that have resolved
\* with their codes, w holds the arguments and locals of repo_write_file.
\* For a call of safeReadFile: file is its path argument, st what stat has
\* settled with, size what readFile has found with fstat, buf the bytes it
\* has read so far; st is "none" while an operation is under way ("read"
\* once readFile has read all) and until the handler has resumed after it. phase and n say where
\* repo_analyze_project is among its reads.
NoHandler ==
  [kind |-> "none", at |-> "", cmd |-> "", log |-> <<>>,
   text |-> "", data |-> <<>>, msg |-> "", w |-> NoWriter,
   file |-> <<>>, st |-> "none", size |-> 0, buf |-> <<>>, phase |-> "", n |-> 0]

AwaitRun(h, at, cmd) == [h EXCEPT !.kind = "run", !.at = at, !.cmd = cmd]
AwaitFs(h, at) == [h EXCEPT !.kind = "fs", !.at = at, !.cmd = ""]

\* safeReadFile(file, ...) is called with a path inside the root and runs to
\* await stat(abs)
AwaitRead(h, file) == [AwaitFs(h, "stat") EXCEPT !.file = file]
Return(h, text) == [h EXCEPT !.kind = "return", !.at = "", !.cmd = "", !.text = text]

Raise(h, msg) == [h EXCEPT !.kind = "throw", !.at = "", !.cmd = "", !.msg = msg]

GitCheck == "git rev-parse --is-inside-work-tree"

\* the handler of tool t is called with the validated arguments of q: it
\* runs to its first await, or to its end
HandlerStart(t, q) ==
  LET h == NoHandler
  IN CASE t = "ping" -> Return(h, IF "msg" \in DOMAIN q.args THEN "<msg>" ELSE "pong")
       [] t \in {"repo_file", "docs.read"} ->
            IF ReadEnter(q.vals.path).outcome.kind = "throw"
            THEN Raise(h, AccessDenied)
            ELSE AwaitRead(h, q.vals.path)
       [] t = "repo_write_file" ->
            LET Enter(w) ==
                  IF w.pc = "done" THEN Raise([h EXCEPT !.w = w], w.result.msg)
                  ELSE AwaitFs([h EXCEPT !.w = w], "write")
            IN Enter(WriteEnter(q.vals.path, q.vals.content, q.vals.backup,
                                q.vals.overwrite))
       [] t \in {"repo_search", "docs.search", "docs.list_common"} -> AwaitRun(h, "rg", "rg")
       [] t = "repo_smart_context" -> AwaitRun(h, "search", "rg")
       [] t = "repo_analyze_project" ->
            AwaitRead([h EXCEPT !.phase = "metadata"], <<"package.json">>)
       [] t \in {"git_list_changed_files", "git_diff_unstaged", "git_log", "git_commit"} ->
            AwaitRun(h, "check", GitCheck)
       [] t \in {"issues.list", "prs.list"} -> AwaitRun(h, "hasGh", "gh --version")
       [] t = "runtime_processes" -> AwaitRun(h, "cmd", "ps")
       [] t = "runtime_logs" -> AwaitRun(h, "cmd", "tail")
       [] t = "runtime_port_check" -> AwaitRun(h, "cmd", "lsof")

\* the commit step of git_commit
GitCommitStep(h) == AwaitRun(h, "commit", "git commit")

\* repo_search and docs.search after run(rgCmd, args)
RipgrepAfterRun(h, r) ==
  IF r.code = -3 \/ r.code = -1
  THEN Raise(h, "ripgrep (rg) not found")
  ELSE IF r.code > 1
       THEN Raise(h, "ripgrep failed")
       ELSE Return(h, "results")

\* GitCommitAfterRun with a slip: the result of git add -A is not looked at
GitCommitAfterRunIgnoresAdd(q, h, r) ==
  CASE h.at = "check" ->
         IF r.out # "true" THEN Return(h, "Not a git repository.")
         ELSE IF AddAll(q) THEN AwaitRun(h, "addAll", "git add -A")
         ELSE IF HasPaths(q) THEN AwaitRun(h, "addPaths", "git add <paths>")
         ELSE GitCommitStep(h)
    [] h.at = "addAll" -> GitCommitStep(h)
    [] h.at = "addPaths" ->
         IF r.code # 0 THEN Return(h, "git add failed") ELSE GitCommitStep(h)
    [] h.at = "commit" ->
         IF r.code # 0
         THEN IF r.out = "nothing to commit"
              THEN Return(h, "Nothing to commit (working tree clean).")
              ELSE Return(h, "git commit failed")
         ELSE AwaitRun(h, "head", "git rev-parse HEAD")
    [] h.at = "head" -> Return(h, "committed")

\* git_commit after one of its commands has resolved
GitCommitAfterRun(q, h, r) ==
  CASE h.at = "check" ->
         IF r.out # "true" THEN Return(h, "Not a git repository.")
         ELSE IF AddAll(q) THEN AwaitRun(h, "addAll", "git add -A")
         ELSE IF HasPaths(q) THEN AwaitRun(h, "addPaths", "git add <paths>")
         ELSE GitCommitStep(h)
    [] h.at = "addAll" ->
         IF r.code # 0 THEN Return(h, "git add -A failed") ELSE GitCommitStep(h)
    [] h.at = "addPaths" ->
         IF r.code # 0 THEN Return(h, "git add failed") ELSE GitCommitStep(h)
    [] h.at = "commit" ->
         IF r.code # 0
         THEN IF r.out = "nothing to commit"
              THEN Return(h, "Nothing to commit (working tree clean).")
              ELSE Return(h, "git commit failed")
         ELSE AwaitRun(h, "head", "git rev-parse HEAD")
    [] h.at = "head" -> Return(h, "committed")

\* the candidates of findMainFiles, in order; a file name is one character of
\* a path here
MainCandidates ==
  << <<"index.js">>, <<"index.ts">>, <<"main.js">>, <<"main.ts">>, <<"app.js">>,
     <<"app.ts">>, <<"main.py">>, <<"__main__.py">>, <<"app.py">>, <<"Main.java">>,
     <<"Application.java">>, <<"main.go">>, <<"cmd", "/", "main.go">>, <<"README.md">>,
     <<"README.rst">>, <<"README.txt">>, <<"package.json">>, <<"pyproject.toml">>,
     <<"pom.xml">>, <<"go.mod">> >>

\* repo_analyze_project after one of its calls of safeReadFile has returned
\* (ok) or thrown, each in a try: analyzeProjectMetadata reads package.json,
\* pyproject.toml or else requirements.txt, pom.xml or else build.gradle, and
\* go.mod; findMainFiles reads every candidate; analyzeDependencies reads
\* package.json
AnalyzeAfterRead(h, ok) ==
  LET f == h.file[1]
      next == CASE f = "package.json" -> <<"pyproject.toml">>
                [] f = "pyproject.toml" -> IF ok THEN <<"pom.xml">> ELSE <<"requirements.txt">>
                [] f = "requirements.txt" -> <<"pom.xml">>
                [] f = "pom.xml" -> IF ok THEN <<"go.mod">> ELSE <<"build.gradle">>
                [] f = "build.gradle" -> <<"go.mod">>
                [] OTHER -> <<>>
      left == [h EXCEPT !.file = <<>>, !.phase = "", !.n = 0]
  IN CASE h.phase = "metadata" ->
            IF next = <<>> THEN AwaitRun(left, "structure", "find") ELSE AwaitRead(h, next)
       [] h.phase = "mainFiles" ->
            IF h.n < Len(MainCandidates)
            THEN AwaitRead([h EXCEPT !.n = @ + 1], MainCandidates[h.n + 1])
            ELSE AwaitRead([h EXCEPT !.phase = "dependencies", !.n = 0], <<"package.json">>)
       [] h.phase = "dependencies" -> AwaitRun(left, "gitCheck", GitCheck)

\* repo_analyze_project after one of its commands has resolved or rejected:
\* each helper catches the rejection; analyzeProjectStructure then falls back
\* to dir, analyzeGitRepository leaves its remaining commands out;
\* calculateProjectStats is called when includeStats is set
AnalyzeAfterRun(q, h, r) ==
  LET stats == IF q.vals.includeStats THEN AwaitRun(h, "stats", "find")
               ELSE Return(h, "analysis")
      mainFiles == AwaitRead([h EXCEPT !.phase = "mainFiles", !.n = 1], MainCandidates[1])
  IN CASE h.at = "structure" ->
            IF r.rejected THEN AwaitRun(h, "structureDir", "dir")
            ELSE mainFiles
       [] h.at = "structureDir" -> mainFiles
       [] h.at = "gitCheck" ->
            IF r.rejected \/ r.code # 0 THEN stats
            ELSE AwaitRun(h, "branch", "git branch")
       [] h.at = "branch" ->
            IF r.rejected THEN stats ELSE AwaitRun(h, "count", "git rev-list")
       [] h.at = "count" ->
            IF r.rejected THEN stats ELSE AwaitRun(h, "lastCommit", "git log -1")
       [] h.at = "lastCommit" ->
            IF r.rejected THEN stats ELSE AwaitRun(h, "remote", "git remote")
       [] h.at = "remote" -> stats
       [] h.at = "stats" -> Return(h, "analysis")

\* the awaited run of the handler of tool t has resolved with r, or has
\* rejected: where no try encloses the await, the rejection leaves the
\* handler. repo_smart_context reads the file that performSearch has listed,
\* under the name path.relative(REPO_ROOT, file) gives it; safeReadFile throws
\* at once for a name outside the root, and the handler catches it. listed is
\* a line of the output of rg --files-with-matches <query> . : the file of the
\* root, as rg names it.
HandlerAfterRun(t, q, h0, r) ==
  LET h == [h0 EXCEPT !.log = Append(@, [cmd |-> h0.cmd, code |-> r.code, out |-> r.out,
                                         rejected |-> r.rejected])]
      listed == PathRelative(REPO_ROOT, <<".", "/", "e">>)
      content == IF ReadEnter(listed).outcome.kind = "throw"
                 THEN Return(h, "context")
                 ELSE AwaitRead(h, listed)
  IN CASE t = "repo_smart_context" ->
            IF h.at = "search"
            THEN IF r.rejected THEN Raise(h, NoStdoutTypeError)
                 ELSE AwaitRun(h, IF r.code <= 1 /\ r.out # "" /\ q.vals.maxFiles > 0
                                  THEN "recentAndFiles" ELSE "recent",
                               "git diff --name-only")
            ELSE IF h.at = "recentAndFiles" /\ q.vals.includeContent
                 THEN content
                 ELSE Return(h, "context")
       [] t = "repo_analyze_project" -> AnalyzeAfterRun(q, h, r)
       [] r.rejected -> Raise(h, NoStdoutTypeError)
       [] t \in {"repo_search", "docs.search"} -> RipgrepAfterRun(h, r)
       [] t = "docs.list_common" ->
            IF r.code < 0 THEN Raise(h, "ripgrep failed") ELSE Return(h, "files")
       [] t = "git_list_changed_files" ->
            IF h.at = "check"
            THEN IF r.out # "true" THEN Return(h, "Not a git repository.")
                 ELSE AwaitRun(h, "status", "git status")
            ELSE IF r.code # 0 THEN Raise(h, "git status failed") ELSE Return(h, "rows")
       [] t = "git_diff_unstaged" ->
            IF h.at = "check"
            THEN IF r.out # "true" THEN Return(h, "Not a git repository.")
                 ELSE AwaitRun(h, "diff", "git diff")
            ELSE IF r.code > 1 THEN Raise(h, "git diff failed") ELSE Return(h, "diff")
       [] t = "git_log" ->
            IF h.at = "check"
            THEN IF r.out # "true" THEN Return(h, "Not a git repository.")
                 ELSE AwaitRun(h, "log", "git log")
            ELSE IF r.code # 0 THEN Return(h, "git log failed") ELSE Return(h, "commits")
       [] t = "git_commit" -> GitCommitAfterRun(q, h, r)
       [] t \in {"issues.list", "prs.list"} ->
            IF h.at = "hasGh"
            THEN IF r.code # 0 THEN Return(h, "GitHub CLI (gh) is not installed")
                 ELSE AwaitRun(h, "list", IF t = "issues.list" THEN "gh issue list"
                                          ELSE "gh pr list")
            ELSE IF r.code # 0 THEN Return(h, "gh list failed") ELSE Return(h, "items")
       [] t \in {"runtime_processes", "runtime_logs", "runtime_port_check"} ->
            IF r.code # 0 THEN Return(h, "Failed") ELSE Return(h, "out")

\* the file operation that the handler of tool t awaits acts on the files f
\* and the backups b: the handler record, with what the operation has
\* settled with, and the files after. The handler has not resumed yet. No
\* state when the operation can make no step.
HandlerAfterFs(t, q, h, f, b) ==
  LET Res(h2, f2, b2) == [h |-> h2, fs |-> f2, backups |-> b2]
      Write(w, f2, b2) == Res([h EXCEPT !.w = w], f2, b2)
      Step(w) ==
        CASE w.pc = "access" -> {Write([w EXCEPT !.res = IF Exists(f, AbsOf(w)) THEN "ok" ELSE "fail"], f, b)}
          [] w.pc \in {"copy", "copyDst", "copyTrunc"} ->
               {Write(x.w, f, x.backups) : x \in CopyBegin(w, f, b)}
          [] w.pc = "copying" ->
               {Write(x.w, f, x.backups) : x \in CopyProgress(w, f, b)}
          [] w.pc = "write" ->
               {Write(WriteBegin(w, CanWrite(AbsOf(w)), AbsOf(w) \in DOMAIN f, FALSE),
                      IF CanWrite(AbsOf(w)) THEN Put(f, AbsOf(w), <<>>) ELSE f, b)}
          [] w.pc = "writing" ->
               {Write([w EXCEPT !.res = "ok"],
                      Put(f, AbsOf(w), WriteAt(f[AbsOf(w)], 0, Utf8Encode(w.content))), b)}
      Read(abs) ==
        CASE h.at = "stat" -> [h EXCEPT !.st = StatOf(f, abs)]
          [] h.at = "readFile" -> [h EXCEPT !.at = "reading", !.size = Len(f[abs])]
          [] h.at = "reading" ->
               LET r == ReadBytes(f[abs], h.size, h.buf)
               IN [h EXCEPT !.buf = r.buf, !.st = IF r.done THEN "read" ELSE "none"]
  IN IF t = "repo_write_file" THEN Step(h.w)
     ELSE {Res(Read(PathResolve(REPO_ROOT, h.file)), f, b)}

\* the handler of tool t resumes after the file operation it awaited has
\* settled, in the millisecond stamp, and runs to its next await or to its end
HandlerResume(t, q, h, stamp) ==
  LET none == [ops |-> <<>>, outcome |-> NoOutcome]
      h0 == [h EXCEPT !.st = "none", !.size = 0, !.buf = <<>>]
      Write(w) ==
        IF w.pc # "done" THEN [h EXCEPT !.w = w]
        ELSE IF w.result.kind = "throw" THEN Raise([h EXCEPT !.w = w], w.result.msg)
        ELSE Return([h EXCEPT !.w = w], w.result.msg)
      ReadDone(o) ==
        CASE t \in {"repo_file", "docs.read"} ->
               IF o.kind = "throw" THEN Raise(h0, o.msg)
               ELSE [Return(h0, "text") EXCEPT !.data = o.text]
          [] t = "repo_smart_context" -> Return(h0, "context")
          [] t = "repo_analyze_project" -> AnalyzeAfterRead(h0, o.kind = "ok")
      AfterStat(o) ==
        IF o.kind = "none" THEN [h0 EXCEPT !.at = "readFile"] ELSE ReadDone(o)
      start == IF t \in {"repo_file", "docs.read"} THEN q.vals.start ELSE 0
      end == IF t \in {"repo_file", "docs.read"} THEN q.vals.end
             ELSE IF h.phase = "mainFiles" THEN 1 ELSE MAX_BYTES
  IN IF t = "repo_write_file" THEN Write(ResumeWrite(h.w, stamp))
     ELSE IF h.at = "stat" THEN AfterStat(ReadAfterStat(h.st, h.file, none).outcome)
     ELSE ReadDone(ReadAfterReadFile(h.buf, h.file, start, end, none).outcome)

(***************************************************************************)
(* The server: startup, the dispatch of requests, the channels.            *)
(***************************************************************************)
\* the requests of one connection, named by their correlation identifiers
Requests == 1 .. MaxRequests

NoRequest ==
  [st |-> "none", tool |-> "", args |-> <<>>, vals |-> NoVals,
   called |-> FALSE, h |-> NoHandler]

\* Answer with a slip: a thrown failure is not caught, and no result is made
\* of it
AnswerLetsThrowPass(t, h) ==
  [kind |-> IF h.kind = "throw" THEN "crash" ELSE "success", tool |-> t, fields |-> {},
   text |-> h.text, data |-> h.data]

\* the InvocationResult of a handler that has returned or thrown: a thrown
\* failure becomes a failure with the tool name and the message
Answer(t, h) ==
  IF h.kind = "throw"
  THEN [kind |-> "failure", tool |-> t, fields |-> {}, text |-> h.msg, data |-> <<>>]
  ELSE [kind |-> "success", tool |-> t, fields |-> {}, text |-> h.text, data |-> h.data]

ValidationError(t, fields) ==
  [kind |-> "validation", tool |-> t, fields |-> fields, text |-> "", data |-> <<>>]

UnknownTool(t) ==
  [kind |-> "unknown tool", tool |-> t, fields |-> {}, text |-> "", data |-> <<>>]

\* a message on standard output
Response(i, result) == [kind |-> "response", id |-> i, result |-> result]

\* the handler of request q has run to h: the request is answered when the
\* handler has returned or thrown, and is suspended while it awaits
Settle(q, h) ==
  [q EXCEPT !.h = h,
            !.st = IF h.kind \in {"return", "throw"} THEN "answered" ELSE "suspended"]

\* ValidateAndInvoke with a slip: the types of the given fields are not checked
ValidateAndInvokeNoTypes(reg, t, q) ==
  IF t \notin reg
  THEN [q EXCEPT !.st = "answered"]
  ELSE IF \E f \in DOMAIN ToolSchema(t) : f \notin DOMAIN q.args /\ ~ToolSchema(t)[f].optional
       THEN [q EXCEPT !.st = "answered"]
       ELSE Settle([q EXCEPT !.called = TRUE], HandlerStart(t, q))

\* validateAndInvoke(name, rawArgs) up to the handler's first await: the tool
\* is looked up, the arguments are validated against its schema, and only
\* then the handler is called
ValidateAndInvoke(reg, t, q) ==
  IF t \notin reg
  THEN [q EXCEPT !.st = "answered"]
  ELSE IF Offending(ToolSchema(t), q.args) # {}
       THEN [q EXCEPT !.st = "answered"]
       ELSE Settle([q EXCEPT !.called = TRUE], HandlerStart(t, q))

\* the result sent for a request that has been answered
ResultFor(reg, q) ==
  IF q.tool \notin reg THEN UnknownTool(q.tool)
  ELSE IF ~q.called THEN ValidationError(q.tool, Offending(ToolSchema(q.tool), q.args))
  ELSE Answer(q.tool, q.h)

\* Emit with a slip: the response carries the identifier of the first request
EmitFirstId(reg, i, q) ==
  IF q.st = "answered" THEN <<Response(1, ResultFor(reg, q))>> ELSE <<>>

\* the messages a step writes to standard output for request i
Emit(reg, i, q) ==
  IF q.st = "answered" THEN <<Response(i, ResultFor(reg, q))>> ELSE <<>>

ServerIdle ==
  /\ boot = 1
  /\ srv = "Uninitialized"
  /\ guards = FALSE
  /\ registry = {}
  /\ resources = {}
  /\ reqs = [i \in Requests |-> NoRequest]
  /\ order = <<>>
  /\ stdoutCh = <<>>
  /\ stderrCh = {}

\* the next statement of the entry point
Statement == IF boot \in DOMAIN Script(entry) THEN Script(entry)[boot] ELSE "end"

\* process.on("uncaughtException", ...) and process.on("unhandledRejection", ...)
BootGuards ==
  /\ Statement = "guards"
  /\ guards' = TRUE
  /\ boot' = boot + 1
  /\ UNCHANGED <<entry, srv, registry, resources, reqs, order, stdoutCh, stderrCh>>
  /\ UNCHANGED <<runVars, sandboxVars, writeVars>>

\* a registration call: registerPing(server), registerRepoTools(server), ...
BootRegister ==
  /\ Statement \notin {"guards", "connect", "log", "end"}
  /\ registry' = registry \cup ToolsOf(Statement)
  /\ resources' = resources \cup ResourcesOf(Statement)
  /\ boot' = boot + 1
  /\ UNCHANGED <<entry, srv, guards, reqs, order, stdoutCh, stderrCh>>
  /\ UNCHANGED <<runVars, sandboxVars, writeVars>>

\* await server.connect(transport)
BootConnect ==
  /\ Statement = "connect"
  /\ srv' = "Connected"
  /\ boot' = boot + 1
  /\ UNCHANGED <<entry, guards, registry, resources, reqs, order, stdoutCh, stderrCh>>
  /\ UNCHANGED <<runVars, sandboxVars, writeVars>>

\* the startup message
BootLog ==
  /\ Statement = "log"
  /\ boot' = boot + 1
  /\ IF StartupLogChannel(entry) = "stdout"
     THEN /\ stdoutCh' = Append(stdoutCh, [kind |-> "log", id |-> 0, result |-> "MCP server is running"])
          /\ UNCHANGED stderrCh
     ELSE /\ stderrCh' = stderrCh \cup {"MCP server running"}
          /\ UNCHANGED stdoutCh
  /\ UNCHANGED <<entry, srv, guards, registry, resources, reqs, order>>
  /\ UNCHANGED <<runVars, sandboxVars, writeVars>>

\* an uncaught exception or an unhandled rejection is reported by the guards
ReportUncaught ==
  /\ guards
  /\ \E k \in {"[uncaughtException]", "[unhandledRejection]"} :
       /\ k \notin stderrCh
       /\ stderrCh' = stderrCh \cup {k}
  /\ UNCHANGED <<entry, boot, srv, guards, registry, resources, reqs, order, stdoutCh>>
  /\ UNCHANGED <<runVars, sandboxVars, writeVars>>

\* the client's handshake: the server starts serving. The statements that
\* follow await server.connect(transport) run before the first message read
\* from standard input is handled.
Initialize ==
  /\ srv = "Connected"
  /\ Statement = "end"
  /\ srv' = "Serving"
  /\ UNCHANGED <<entry, boot, guards, registry, resources, reqs, order, stdoutCh, stderrCh>>
  /\ UNCHANGED <<runVars, sandboxVars, writeVars>>

\* Dispatch with a slip: a request is still dispatched after the transport is
\* closed
DispatchAfterClose(i, tools) ==
  /\ srv \in {"Serving", "Closed"}
  /\ reqs[i].st = "none"
  /\ \A j \in Requests : j < i => reqs[j].st # "none"
  /\ \E t \in tools : \E a \in ArgShapes(t) : \E v \in ValsOf(t, a) :
       /\ reqs' = [reqs EXCEPT ![i] =
                     ValidateAndInvoke(registry, t,
                       [NoRequest EXCEPT !.tool = t, !.args = a, !.vals = v])]
  /\ stdoutCh' = stdoutCh \o Emit(registry, i, reqs'[i])
  /\ order' = Append(order, i)
  /\ UNCHANGED <<entry, boot, srv, guards, registry, resources, stderrCh>>
  /\ UNCHANGED <<runVars, sandboxVars, writeVars>>

\* request i arrives with a tool name among tools and an argument object, and
\* is dispatched
Dispatch(i, tools) ==
  /\ srv = "Serving"
  /\ reqs[i].st = "none"
  /\ \A j \in Requests : j < i => reqs[j].st # "none"
  /\ \E t \in tools : \E a \in ArgShapes(t) : \E v \in ValsOf(t, a) :
       /\ reqs' = [reqs EXCEPT ![i] =
                     ValidateAndInvoke(registry, t,
                       [NoRequest EXCEPT !.tool = t, !.args = a, !.vals = v])]
  /\ stdoutCh' = stdoutCh \o Emit(registry, i, reqs'[i])
  /\ order' = Append(order, i)
  /\ UNCHANGED <<entry, boot, srv, guards, registry, resources, stderrCh>>
  /\ UNCHANGED <<runVars, sandboxVars, writeVars>>

\* the run that the handler of request i awaits resolves
RunResolves(i) ==
  /\ reqs[i].st = "suspended"
  /\ reqs[i].h.kind = "run"
  /\ \E r \in ToolRunResults :
       reqs' = [reqs EXCEPT ![i] = Settle(@, HandlerAfterRun(@.tool, @, @.h, r))]
  /\ stdoutCh' = stdoutCh \o Emit(registry, i, reqs'[i])
  /\ UNCHANGED <<entry, boot, srv, guards, registry, resources, order, stderrCh>>
  /\ UNCHANGED <<runVars, sandboxVars, writeVars>>

\* the file operation that the handler of request i awaits acts on the files
\* (copyFile, readFile and writeFile act in several steps) until it has
\* settled; the handler stays suspended
FsCompletes(i) ==
  /\ reqs[i].st = "suspended"
  /\ reqs[i].h.kind = "fs"
  /\ IF reqs[i].tool = "repo_write_file" THEN reqs[i].h.w.res = "none" ELSE reqs[i].h.st = "none"
  /\ \E x \in HandlerAfterFs(reqs[i].tool, reqs[i], reqs[i].h, fs, backups) :
       /\ reqs' = [reqs EXCEPT ![i].h = x.h]
       /\ fs' = x.fs
       /\ backups' = x.backups
  /\ UNCHANGED <<entry, boot, srv, guards, registry, resources, order, stdoutCh, stderrCh>>
  /\ UNCHANGED <<tpc, call, oplog, outcome, runVars, writeVars>>

\* the handler of request i resumes, in a turn of the event loop after the
\* one in which the operation it awaited has settled: it runs to its next
\* await, or to its end, and then the request is answered
FsResumes(i) ==
  /\ reqs[i].st = "suspended"
  /\ reqs[i].h.kind = "fs"
  /\ IF reqs[i].tool = "repo_write_file" THEN reqs[i].h.w.res # "none" ELSE reqs[i].h.st # "none"
  /\ \E t \in Stamps :
       reqs' = [reqs EXCEPT ![i] = Settle(@, HandlerResume(@.tool, @, @.h, t))]
  /\ stdoutCh' = stdoutCh \o Emit(registry, i, reqs'[i])
  /\ UNCHANGED <<entry, boot, srv, guards, registry, resources, order, stderrCh>>
  /\ UNCHANGED <<runVars, sandboxVars, writeVars>>

\* the transport is disconnected: no further request is accepted, the
\* requests in flight run to their end
Close ==
  /\ srv \in {"Connected", "Serving"}
  /\ srv' = "Closed"
  /\ UNCHANGED <<entry, boot, guards, registry, resources, reqs, order, stdoutCh, stderrCh>>
  /\ UNCHANGED <<runVars, sandboxVars, writeVars>>

(***************************************************************************)
(* Specifications.                                                         *)
(***************************************************************************)
\* one call of run and its child process
Init ==
  /\ RunInit
  /\ SandboxIdle
  /\ WriteIdle
  /\ ServerIdle
  /\ entry = "main"
  /\ fs = [q \in {InsideFile, SiblingFile} |->
             IF q = InsideFile THEN ContentOf(0) ELSE SiblingBytes]

Next ==
  \/ CallSpawnThrows
  \/ CallSpawnReturns
  \/ TimerFire
  \/ ProcWriteOut
  \/ ProcWriteErr
  \/ ProcExit
  \/ DeliverOut
  \/ DeliverErr
  \/ EmitError
  \/ EmitClose

Spec == Init /\ [][Next]_vars

\* one call of a path-taking operation against the sandbox, from await to
\* await, with a repo_write_file of another request in flight
SandboxSpecInit == RunInit /\ SandboxInit /\ WriteIdle /\ ServerIdle /\ entry = "main"

SandboxSpecNext ==
  \/ CallIsAllowed
  \/ CallSafeReadFile
  \/ ToolRepoFile
  \/ ToolDocsRead
  \/ ReadStat
  \/ ReadAfterStatResumes
  \/ ReadOpen
  \/ ReadReadFile
  \/ ReadReturns
  \/ ToolRepoWriteFile
  \/ ConcurrentWrite
  \/ \E i \in Writers : WriteAccess(i)
  \/ \E i \in Writers : WriteCopyFile(i)
  \/ \E i \in Writers : WriteCopyData(i)
  \/ \E i \in Writers : WriteWriteFile(i)
  \/ \E i \in Writers : WriteWriteData(i)
  \/ \E i \in Writers : WriteResume(i)
  \/ ToolRuntimeLogs
  \/ ToolGitDiffUnstaged
  \/ ToolGitLog
  \/ ToolRunResolves

SandboxSpec == SandboxSpecInit /\ [][SandboxSpecNext]_vars

\* concurrent invocations of repo_write_file on the file system
WriteSpecInit ==
  /\ RunInit
  /\ SandboxIdle
  /\ WriteIdle
  /\ ServerIdle
  /\ entry = "main"
  /\ fs = [q \in {InsideFile, SiblingFile} |->
             IF q = InsideFile THEN ContentOf(MaxFileLen) ELSE SiblingBytes]

WriteSpecNext ==
  \/ \E i \in Writers : WriteCall(i)
  \/ \E i \in Writers : WriteAccess(i)
  \/ \E i \in Writers : WriteCopyFile(i)
  \/ \E i \in Writers : WriteCopyData(i)
  \/ \E i \in Writers : WriteWriteFile(i)
  \/ \E i \in Writers : WriteWriteData(i)
  \/ \E i \in Writers : WriteResume(i)

WriteSpec == WriteSpecInit /\ [][WriteSpecNext]_vars

\* a server process and one connection: either entry point, requests for the
\* a tool that answers at once, one that reads a file, one that writes it and
\* one that awaits a process, in flight together
ServerSpecInit ==
  /\ RunInit
  /\ SandboxIdle
  /\ WriteIdle
  /\ ServerIdle
  /\ entry \in {"server.mjs", "main"}
  /\ fs = [q \in {InsideFile, SiblingFile} |->
             IF q = InsideFile THEN ContentOf(MaxFileLen) ELSE SiblingBytes]

ServerSpecNext ==
  \/ BootGuards
  \/ BootRegister
  \/ BootConnect
  \/ BootLog
  \/ ReportUncaught
  \/ Initialize
  \/ \E i \in Requests : Dispatch(i, {"ping", "repo_file", "repo_write_file", "repo_search"})
  \/ \E i \in Requests : RunResolves(i)
  \/ \E i \in Requests : FsCompletes(i)
  \/ \E i \in Requests : FsResumes(i)
  \/ Close

ServerSpec == ServerSpecInit /\ [][ServerSpecNext]_vars

\* a server process and one request, for any tool and any argument object
DispatchSpecNext ==
  \/ BootGuards
  \/ BootRegister
  \/ BootConnect
  \/ BootLog
  \/ Initialize
  \/ Dispatch(1, AllTools)
  \/ RunResolves(1)
  \/ FsCompletes(1)
  \/ FsResumes(1)

DispatchSpec == ServerSpecInit /\ [][DispatchSpecNext]_vars

\* The event loop runs every timer that is due and every event that is
\* pending; what the child does (write, exit) is up to the child.
FairSpec ==
  /\ Init
  /\ [][Next]_vars
  /\ WF_vars(TimerFire)
  /\ WF_vars(DeliverOut)
  /\ WF_vars(DeliverErr)
  /\ WF_vars(EmitError)
  /\ WF_vars(EmitClose)

\* The file operations an invocation of repo_write_file awaits make progress
\* whenever they can: the next step of invocation i is taken when it stays
\* possible. A copy that has no byte left to move and has not moved them all
\* has no step.
WriteStep(i) ==
  \/ WriteAccess(i)
  \/ WriteCopyFile(i)
  \/ WriteCopyData(i)
  \/ WriteWriteFile(i)
  \/ WriteWriteData(i)
  \/ WriteResume(i)

FairWriteSpec ==
  /\ WriteSpecInit
  /\ [][WriteSpecNext]_vars
  /\ \A i \in Writers : WF_vars(WriteStep(i))

(***************************************************************************)
(* Properties of run.                                                      *)
(***************************************************************************)
RECURSIVE DecodeAll(_)
\* the text of a sequence of chunks, each decoded by itself, in order
DecodeAll(chunks) ==
  IF chunks = <<>> THEN <<>>
  ELSE Utf8Decode(Head(chunks)) \o DecodeAll(Tail(chunks))

\* C1: within one call of run at most one of the timeout, 'error' and 'close'
\* paths resolves the call: resolve is called at most once.
C1_SingleResolution == rs.resolveCalls <= 1

\* the call has a result: its promise is resolved, not rejected
Resolved == rs.settled /\ ~rs.rejected

\* C2: every call of run ends with a result and never rejects: the promise is
\* never rejected, it is resolved once the timer callback has run, and a call
\* that was made is eventually resolved.
C2_AlwaysResolves ==
  /\ [](~rs.rejected)
  /\ [](rs.timer = "fired" => Resolved)
  /\ (pc = "called") ~> Resolved

\* C3: the code names the path that resolved the call: -1 the synchronous spawn
\* failure (no timer, the exception message in err), -3 the 'error' event, -2
\* the timeout; a result of 'close' has no negative code.
C3_CodeNamesPath ==
  Resolved =>
    /\ (rs.result.code = -1) <=> (rs.resolvedBy = "spawnfail")
    /\ (rs.result.code = -3) <=> (rs.resolvedBy = "error")
    /\ (rs.result.code = -2) <=> (rs.resolvedBy = "timeout")
    /\ rs.resolvedBy = "close" => rs.result.code >= 0
    /\ rs.resolvedBy = "spawnfail" =>
         /\ rs.timer = "none"
         /\ rs.result.err.kind = "Spawn failed"
         /\ proc = "none"

\* C3 witness: the 'error' event resolved the call and the 'close' that
\* followed it carried a negative code.
C3_Witness ==
  /\ rs.resolvedBy = "error"
  /\ rs.result.code = -3
  /\ closeEmitted
  /\ exitCode = <<SpawnErrno>>

\* what the handlers had received when the timer callback started
OutAtFire == DecodeAll(SubSeq(producedOut, 1, atFire[1].nOut))
ErrAtFire == DecodeAll(SubSeq(producedErr, 1, atFire[1].nErr))

\* C4 as claimed: a timeout result carries the stdout and the stderr captured
\* before the timer fired.
C4_TimeoutCarriesOutAndErr ==
  rs.resolvedBy = "timeout" =>
    /\ rs.result.out = OutAtFire
    /\ atFire[1].nErr > 0 => rs.result.err = ErrText(ErrAtFire)

\* C4 amended: a timeout result carries the stdout captured before the timer
\* fired; its err is the message "Timed out after <timeoutMs>ms", not the
\* captured stderr.
C4_TimeoutCarriesOut ==
  rs.resolvedBy = "timeout" =>
    /\ rs.result.code = -2
    /\ rs.result.out = OutAtFire
    /\ rs.result.err = TimedOutMsg(rs.timeoutMs)

\* C4 witness: the timeout resolved a call that had received stdout and
\* stderr, and more stdout arrived afterwards.
C4_Witness ==
  /\ rs.resolvedBy = "timeout"
  /\ atFire[1].nOut > 0
  /\ atFire[1].nErr > 0
  /\ nOut > atFire[1].nOut

\* C5: a call resolved by the timeout (code -2) issued its kill before the
\* result was returned, and its child eventually is no longer running.
C5_TimeoutTerminates ==
  /\ [](rs.resolvedBy = "timeout" =>
          rs.killCalls >= 1 /\ atFire[1].resolveCalls = 0)
  /\ (rs.resolvedBy = "timeout") ~> (proc # "running")

\* C6: a result of 'close' has the child's exit code (0 when 'close' carries
\* none) and, in out and err, every chunk the child wrote, once, in order.
C6_CloseCarriesEverything ==
  rs.resolvedBy = "close" =>
    /\ rs.result.code = Coalesce(exitCode, 0)
    /\ rs.result.out = DecodeAll(producedOut)
    /\ rs.result.err = ErrText(DecodeAll(producedErr))

\* C6 witness: 'close' without a code resolved a call whose child wrote two
\* different chunks to stdout and something to stderr.
C6_Witness ==
  /\ rs.resolvedBy = "close"
  /\ exitCode = <<>>
  /\ rs.result.code = 0
  /\ Len(producedOut) = 2
  /\ producedOut[1] # producedOut[2]
  /\ Len(producedErr) >= 1

(***************************************************************************)
(* Properties of the sandbox.                                              *)
(***************************************************************************)
\* abs is the root or lies under it by whole path segments
UnderRoot(abs) ==
  LET r == NormalizeSegs(Split(REPO_ROOT, <<>>), <<>>)
      a == NormalizeSegs(Split(abs, <<>>), <<>>)
  IN Len(a) >= Len(r) /\ SubSeq(a, 1, Len(r)) = r

\* the tools whose handler is safeReadFile
ReadTools == {"safeReadFile", "repo_file", "docs.read"}

\* the bytes of b at the positions p with max(0, start) <= p < min(end, length)
ExpectedRange(b, start, end) == SubSeq(b, Max(0, start) + 1, Min(end, Len(b)))

\* C7: isAllowed(p) is true exactly when the normalised absolute form of p is
\* the sandbox root or lies under it by whole path segments.
C7_IsAllowedSegmentAware ==
  call.tool = "isAllowed" =>
    oplog[1].ok = UnderRoot(PathResolve(Cwd, call.path))

\* C8: a read of a path that resolves outside the root fails with the
\* access-denied error and calls neither stat nor readFile.
C8_OutsideNeverRead ==
  (call.tool \in ReadTools /\ ~UnderRoot(PathResolve(REPO_ROOT, call.path))) =>
    /\ outcome = Throw(AccessDenied)
    /\ tpc = "returned"
    /\ \A i \in DOMAIN oplog : oplog[i].op \notin {"stat", "readFile"}

\* every operation of ops on a path comes after an isAllowed check of that
\* path that was true
OpsChecked(ops) ==
  \A i \in DOMAIN ops :
    (ops[i].op # "isAllowed" /\ ops[i].path # <<>>) =>
      \E j \in 1..(i - 1) : ops[j] = Op("isAllowed", ops[i].path, TRUE)

\* a check of ops was false
Denied(ops) == \E i \in DOMAIN ops : ops[i].op = "isAllowed" /\ ~ops[i].ok

\* C9: every handler that takes a path from the client checks isAllowed on the
\* resolved path before it, or a command it spawns, touches that path, and
\* fails with the access-denied error when the check is false.
C9_EveryPathChecked ==
  /\ call.tool # "isAllowed" =>
       /\ OpsChecked(oplog)
       /\ Denied(oplog) => outcome = Throw(AccessDenied)
  /\ \A i \in Writers :
       /\ OpsChecked(wcall[i].ops)
       /\ Denied(wcall[i].ops) => wcall[i].result = Throw(AccessDenied)

\* C10: a read of a regular file inside the root returns the bytes at the
\* positions p with max(0, start) <= p < min(end, length), decoded as text,
\* of the content the file held when it was read.
C10_ReadReturnsRange ==
  (call.tool \in ReadTools /\ rb.kind = "read"
     /\ UnderRoot(PathResolve(REPO_ROOT, call.path))) =>
    outcome = Ok(Utf8Decode(ExpectedRange(rb.buf, call.start, call.end)), "")

(***************************************************************************)
(* Properties of repo_write_file.                                          *)
(***************************************************************************)
\* C11: after repo_write_file has written content C to a path inside the root,
\* with no other write to the path in flight or since, a read of that path
\* with range [start, end) returns the UTF-8 bytes of C at the positions of
\* that range, decoded as text.
C11_RoundTrip ==
  (call.tool \in ReadTools /\ rb.kind = "read" /\ rb.written # <<>>
     /\ UnderRoot(PathResolve(REPO_ROOT, call.path))) =>
    outcome =
      Ok(Utf8Decode(ExpectedRange(Utf8Encode(rb.written[1]), call.start, call.end)), "")

\* C19: an invocation with overwrite = false never replaces a file that exists
\* when its writeFile is performed, and makes no backup.
C19_NoOverwriteKeepsExisting ==
  \A i \in Writers :
    ~wcall[i].overwrite => (~wcall[i].wroteOver /\ wcall[i].copy = "none")

\* C20: when an invocation with overwrite = true and backup = true found the
\* file present, its writeFile starts only after its copyFile has completed
\* with success, and the backup file is there then; while the copy is not
\* complete the file is not opened for writing; if the copyFile fails the
\* invocation throws and writes nothing. With no other invocation dispatched,
\* the backup holds the bytes the file had.
C20_BackupBeforeWrite ==
  \A i \in Writers :
    LET w == wcall[i]
    IN (w.overwrite /\ w.backup /\ w.fileExists) =>
         /\ (w.pc \in {"write", "writing"} \/ w.opened \/ w.wrote) =>
              /\ w.copy = "ok"
              /\ w.copied = w.size
              /\ BackupPath(AbsOf(w), w.stamp) \in DOMAIN backups
         /\ w.pc \in {"copy", "copyDst", "copyTrunc", "copying"} => (~w.opened /\ ~w.wrote)
         /\ w.copy = "failed" =>
              (w.pc = "done" /\ ~w.opened /\ ~w.wrote
                 /\ w.result = Throw("copyFile failed"))
         /\ (w.copy = "ok" /\ \A j \in Writers \ {i} : wcall[j].pc = "idle") =>
              backups[BackupPath(AbsOf(w), w.stamp)] = ContentOf(MaxFileLen)

\* one invocation has replaced the file after its backup, another has failed
\* in its backup and has left
C20_Witness ==
  \E i, j \in Writers :
    /\ wcall[i].overwrite /\ wcall[i].backup /\ wcall[i].fileExists
    /\ wcall[i].wrote /\ wcall[i].copy = "ok"
    /\ wcall[j].overwrite /\ wcall[j].backup /\ wcall[j].fileExists
    /\ wcall[j].copy = "failed" /\ wcall[j].pc = "done"

(***************************************************************************)
(* Properties of the server.                                               *)
(***************************************************************************)
\* the responses on standard output, in the order written
Responses == {stdoutCh[k] : k \in DOMAIN stdoutCh}

\* C12: a request for a registered tool whose arguments fail the tool's
\* schema is answered with a validation error naming the offending fields,
\* and the handler is never called: it has not run, and no file and no
\* backup has changed.
C12_InvalidArgsNeverReachHandler ==
  \A i \in Requests :
    LET q == reqs[i]
        bad == Offending(ToolSchema(q.tool), q.args)
    IN (q.st # "none" /\ q.tool \in registry /\ bad # {}) =>
         /\ q.st = "answered"
         /\ ~q.called
         /\ q.h = NoHandler
         /\ Response(i, ValidationError(q.tool, bad)) \in Responses
         /\ \A m \in Responses : m.id = i => m.result.kind = "validation"
         /\ backups = NoBackups
         /\ fs[InsideFile] = ContentOf(MaxFileLen)

\* a request whose path argument is a number has been answered, and a request
\* without its required field too
C12_Witness ==
  /\ \E m \in Responses :
       m.kind = "response" /\ m.result.kind = "validation" /\ m.result.fields = {"path"}
         /\ m.result.tool = "repo_write_file"
         /\ "path" \in DOMAIN reqs[m.id].args

\* the handler of request i has thrown, or its promise has rejected
Threw(i) == reqs[i].called /\ reqs[i].h.kind = "throw"

\* the failure result for tool t with message msg
FailureOf(t, msg) ==
  [kind |-> "failure", tool |-> t, fields |-> {}, text |-> msg, data |-> <<>>]

\* the code the last resolved command of request q ended with
LastCode(q) == q.h.log[Len(q.h.log)].code

\* C13: a handler that throws or rejects is answered with a failure result
\* carrying the tool name and the message, for that request: repo_file on a
\* path outside the root with "Access denied", repo_search with "ripgrep
\* failed" when rg exits with a code above 1 and "ripgrep (rg) not found"
\* when it could not be spawned. The step in which the handler throws leaves
\* the server in its state, with its registry.
C13_HandlerFailureIsCaught ==
  /\ [](\A i \in Requests :
         LET q == reqs[i]
         IN /\ Threw(i) =>
                 /\ q.st = "answered"
                 /\ FailureOf(q.tool, q.h.msg) \in {m.result : m \in {n \in Responses : n.id = i}}
                 /\ \A m \in Responses : m.id = i => m.result.kind = "failure"
                 /\ srv \in {"Serving", "Closed"}
            /\ (q.called /\ q.st = "answered" /\ q.tool = "repo_file"
                  /\ ~isAllowed(PathResolve(REPO_ROOT, q.vals.path))) =>
                 Response(i, FailureOf("repo_file", AccessDenied)) \in Responses
            /\ (q.called /\ q.st = "answered" /\ q.tool = "repo_search"
                  /\ LastCode(q) \in {-3, -1}) =>
                 Response(i, FailureOf("repo_search", "ripgrep (rg) not found")) \in Responses
            /\ (q.called /\ q.st = "answered" /\ q.tool = "repo_search"
                  /\ LastCode(q) > 1) =>
                 Response(i, FailureOf("repo_search", "ripgrep failed")) \in Responses)
  /\ [][\A i \in Requests :
          (~Threw(i) /\ Threw(i)') => (srv' = srv /\ registry' = registry)]_vars

\* the first request was answered with a failure, and the request that
\* followed was dispatched and answered with success while still Serving
C13_Witness ==
  /\ srv = "Serving"
  /\ Len(stdoutCh) = 2
  /\ stdoutCh[1] = Response(1, FailureOf("repo_search", "ripgrep failed"))
  /\ stdoutCh[2].id = 2
  /\ stdoutCh[2].result.kind = "success"
  /\ reqs[2].tool = "ping"
  /\ Threw(1)

\* C14: every response on standard output carries the identifier of a request
\* that was dispatched and has been answered, its result is for the tool of
\* that request and is what that request's handler has returned or thrown,
\* and no request has two responses.
C14_ResponsesCorrelate ==
  \A k \in DOMAIN stdoutCh :
    LET m == stdoutCh[k]
    IN m.kind = "response" =>
         /\ m.id \in Requests
         /\ \E n \in DOMAIN order : order[n] = m.id
         /\ reqs[m.id].st = "answered"
         /\ m.result.tool = reqs[m.id].tool
         /\ m.result = ResultFor(registry, reqs[m.id])
         /\ (m.result.kind \in {"success", "failure"}) = reqs[m.id].called
         /\ \A l \in DOMAIN stdoutCh :
              (stdoutCh[l].kind = "response" /\ stdoutCh[l].id = m.id) => l = k

\* repo_search was dispatched first and is still suspended on rg; ping was
\* dispatched after it and its response is out
C14_Witness ==
  /\ order = <<1, 2>>
  /\ reqs[1].tool = "repo_search"
  /\ reqs[1].st = "suspended"
  /\ reqs[1].h.kind = "run"
  /\ reqs[2].tool = "ping"
  /\ Response(2, [kind |-> "success", tool |-> "ping", fields |-> {},
                   text |-> "pong", data |-> <<>>]) \in Responses
  /\ \A m \in Responses : m.id # 1

\* C15: an invocation of repo_write_file that has been dispatched is
\* eventually answered: its handler returns or throws.
C15_EveryWriteAnswered ==
  \A i \in Writers : (wcall[i].pc # "idle") ~> (wcall[i].pc = "done")

\* C16: whichever entry point runs, standard output carries protocol
\* responses only: the startup message and the reports of uncaught exceptions
\* and unhandled rejections are on standard error.
C16_StdoutCarriesOnlyProtocol ==
  /\ \A k \in DOMAIN stdoutCh : stdoutCh[k].kind = "response"
  /\ Statement = "end" =>
       \E line \in stderrCh : line \in {"MCP server running", "MCP server is running"}

\* the states of the server, in order
Rank(st) ==
  CASE st = "Uninitialized" -> 0
    [] st = "Connected" -> 1
    [] st = "Serving" -> 2
    [] st = "Closed" -> 3

\* the tools and the resources the registration calls of entry point e register
EntryTools(e) == UNION {ToolsOf(Script(e)[k]) : k \in DOMAIN Script(e)}
EntryResources(e) == UNION {ResourcesOf(Script(e)[k]) : k \in DOMAIN Script(e)}

\* what every step of the server respects
LifecycleStep ==
  /\ Rank(srv') >= Rank(srv)
  /\ srv # "Uninitialized" => (registry' = registry /\ resources' = resources)
  /\ \A i \in Requests :
       (reqs[i].st = "none" /\ reqs'[i].st # "none") =>
         (srv = "Serving" /\ srv' = "Serving")
  /\ \A i \in Requests :
       (~reqs[i].called /\ reqs'[i].called) => srv = "Serving"

\* C17: the server state only moves forward; once the transport is attached
\* every tool and resource of the entry point is registered and the registry
\* does not change; a request is dispatched, and a handler called, only while
\* Serving.
C17_LifecycleForward ==
  /\ [](srv # "Uninitialized" =>
         (registry = EntryTools(entry) /\ resources = EntryResources(entry)))
  /\ [](srv = "Uninitialized" => \A i \in Requests : reqs[i].st = "none")
  /\ [][LifecycleStep]_vars

\* the entry point with the tool modules has served a request and is closed,
\* with a request that was never dispatched
C17_Witness ==
  /\ entry = "main"
  /\ srv = "Closed"
  /\ registry = AllTools
  /\ resources = {"hello://world"}
  /\ reqs[1].st = "answered"
  /\ reqs[1].called
  /\ reqs[2].st = "none"

\* the tools C18 names: repo_search, docs.search, the runtime tools, the git tools
CommandTools ==
  {"repo_search", "docs.search", "runtime_processes", "runtime_logs",
   "runtime_port_check", "git_list_changed_files", "git_diff_unstaged", "git_log",
   "git_commit"}

\* C18: when a command awaited by the handler of one of these tools resolved
\* with a negative code (spawn failure, timeout, spawn error), the request is
\* answered with a failure and not with a success payload.
C18_CommandFailureIsFailure ==
  \A i \in Requests :
    LET q == reqs[i]
    IN (q.called /\ q.st = "answered" /\ q.tool \in CommandTools
          /\ \E k \in DOMAIN q.h.log : q.h.log[k].code < 0) =>
         \A m \in Responses : m.id = i => m.result.kind = "failure"

(***************************************************************************)
(* Properties of git_commit.                                               *)
(***************************************************************************)
\* the commands the handler of request q has spawned, in order: those that
\* have resolved, then the one it awaits
Spawned(q) ==
  [k \in 1 .. Len(q.h.log) |-> q.h.log[k].cmd]
    \o (IF q.h.kind = "run" THEN <<q.h.cmd>> ELSE <<>>)

\* C21: git_commit spawns the work-tree check first; a staging command only
\* second and after the check reported true; "git commit" only after the
\* check reported true and the staging that was asked for exited with code 0,
\* with nothing else in between; "git rev-parse HEAD" only right after a
\* commit that exited with code 0. A failed check or staging ends the
\* handler without a commit.
C21_GitCommitOrder ==
  \A i \in Requests :
    LET q == reqs[i]
        log == q.h.log
        cmds == Spawned(q)
        staged == AddAll(q) \/ HasPaths(q)
    IN (q.tool = "git_commit" /\ q.called) =>
         /\ cmds # <<>>
         /\ cmds[1] = GitCheck
         /\ \A k \in DOMAIN cmds :
              /\ cmds[k] = GitCheck => k = 1
              /\ cmds[k] \in {"git add -A", "git add <paths>"} =>
                   /\ k = 2
                   /\ log[1].out = "true"
                   /\ cmds[k] = (IF AddAll(q) THEN "git add -A" ELSE "git add <paths>")
                   /\ staged
              /\ cmds[k] = "git commit" =>
                   /\ log[1].out = "true"
                   /\ k = (IF staged THEN 3 ELSE 2)
                   /\ staged => (cmds[2] \in {"git add -A", "git add <paths>"}
                                  /\ log[2].code = 0
                                  /\ ~log[2].rejected)
              /\ cmds[k] = "git rev-parse HEAD" =>
                   (/\ k > 1
                    /\ cmds[k - 1] = "git commit"
                    /\ log[k - 1].code = 0
                    /\ ~log[k - 1].rejected)
              /\ cmds[k] \in {GitCheck, "git add -A", "git add <paths>", "git commit",
                               "git rev-parse HEAD"}

\* a commit with addAll and with paths went through its four commands, git
\* add -A and no git add <paths> among them; the handler is done
C21_Witness ==
  /\ reqs[1].tool = "git_commit"
  /\ AddAll(reqs[1])
  /\ HasPaths(reqs[1])
  /\ reqs[1].h.kind = "return"
  /\ Spawned(reqs[1]) = <<GitCheck, "git add -A", "git commit", "git rev-parse HEAD">>
  /\ reqs[1].h.text = "committed"

(***************************************************************************)
(* Properties of run: the kill.                                            *)
(***************************************************************************)
\* a step in which p.kill() is called
KillStep == rs'.killCalls > rs.killCalls

\* C22: p.kill() is called at most once in a call of run, and only by the
\* timer callback of a call that has not resolved: the step that calls it is
\* the firing of the armed timer with done false. Once the call has resolved
\* through 'close' or 'error' the timer is no longer pending, and when it was
\* 'close' or the 'error' of a failed spawn that resolved it the timer was
\* cleared and kill was never called. A call whose spawn threw has no timer
\* and no kill, and a call that was rejected has no kill: its timer is
\* cleared by the 'error' event before it can fire.
C22_KillOnlyByTimeoutOnce ==
  /\ [](rs.killCalls <= 1)
  /\ [](rs.resolvedBy = "spawnfail" => (rs.killCalls = 0 /\ rs.timer = "none"))
  /\ [](rs.resolvedBy \in {"close", "error"} => rs.timer # "armed")
  /\ []((rs.resolvedBy \in {"close", "error"} /\ atFire = <<>>) =>
          (rs.timer = "cleared" /\ rs.killCalls = 0))
  /\ [](rs.killCalls = 1 => (rs.timer = "fired" /\ atFire # <<>>))
  /\ [](rs.rejected => (rs.killCalls = 0 /\ rs.timer # "fired"))
  /\ [][KillStep =>
          /\ ~rs.done
          /\ ~rs.settled
          /\ rs.timer = "armed"
          /\ rs'.timer = "fired"
          /\ rs.killCalls = 0
          /\ rs'.killCalls = 1]_vars

\* the timeout killed the child once; the 'close' event that followed the
\* child's end called no kill
C22_Witness ==
  /\ rs.resolvedBy = "timeout"
  /\ rs.killCalls = 1
  /\ proc = "exited"
  /\ closeEmitted

=============================================================================
